---- MODULE Spec2Model ----
(***************************************************************************)
(* Model of the reconciliation engine of ExcelComparison                   *)
(* (src/comparator.py): key normalization, partitioning of the two         *)
(* datasets by join key, per-field typed comparison, direction             *)
(* classification and row assembly.                                        *)
(*                                                                         *)
(* Python values are records [t, n, s]:                                    *)
(*   t = "None"   None                                                     *)
(*   t = "nan"    float('nan')                                             *)
(*   t = "inf"    float('inf') (n = 1) or float('-inf') (n = -1)           *)
(*   t = "int"    the int n                                                *)
(*   t = "float"  the finite float n / Scale                               *)
(*   t = "str"    the string whose characters are the sequence s           *)
(* Finite floats are exact decimals with FracDigits fractional digits:     *)
(* one digit more than round(_, 6) keeps, so that a difference smaller     *)
(* than the rounding step exists in the model.  Binary representation      *)
(* error of IEEE doubles is not modelled.                                  *)
(***************************************************************************)
EXTENDS Integers, Sequences, FiniteSets, TLC

\* ------------------------------------------------------------------ values

\* ndigits of round(n - q, 6)
RoundDigits == 6

\* fractional decimal digits a modelled float carries
FracDigits == RoundDigits + 1

RECURSIVE Pow10(_)
Pow10(k) == IF k = 0 THEN 1 ELSE 10 * Pow10(k - 1)

Scale == Pow10(FracDigits)

None == [t |-> "None", n |-> 0, s |-> <<>>]

NaN == [t |-> "nan", n |-> 0, s |-> <<>>]

PyInf(sg) == [t |-> "inf", n |-> sg, s |-> <<>>]

PyInt(i) == [t |-> "int", n |-> i, s |-> <<>>]

PyFloat(u) == [t |-> "float", n |-> u, s |-> <<>>]

PyStr(cs) == [t |-> "str", n |-> 0, s |-> cs]

\* isinstance(val, float)
IsFloat(v) == v.t \in {"float", "inf", "nan"}

\* pd.isna(val) for a scalar
IsNa(v) == v.t \in {"None", "nan"}

\* bool(val)
Truthy(v) ==
    CASE v.t = "None" -> FALSE
      [] v.t = "int" -> v.n # 0
      [] v.t = "float" -> v.n # 0
      [] v.t = "str" -> v.s # <<>>
      [] OTHER -> TRUE

\* ----------------------------------------------------------------- strings

Digits == <<"0", "1", "2", "3", "4", "5", "6", "7", "8", "9">>

LowerCase == <<"a", "b", "c", "d", "e", "f", "g", "h", "i", "j", "k", "l", "m",
               "n", "o", "p", "q", "r", "s", "t", "u", "v", "w", "x", "y", "z">>

UpperCase == <<"A", "B", "C", "D", "E", "F", "G", "H", "I", "J", "K", "L", "M",
               "N", "O", "P", "Q", "R", "S", "T", "U", "V", "W", "X", "Y", "Z">>

Whitespace == {" ", "\t", "\n"}

IsDigit(c) == \E i \in 1..10 : Digits[i] = c

DigitVal(c) == (CHOOSE i \in 1..10 : Digits[i] = c) - 1

\* str.upper() on one character
UpperChar(c) ==
    IF \E i \in 1..26 : LowerCase[i] = c
    THEN UpperCase[CHOOSE i \in 1..26 : LowerCase[i] = c]
    ELSE c

\* str.lower() on one character
LowerChar(c) ==
    IF \E i \in 1..26 : UpperCase[i] = c
    THEN LowerCase[CHOOSE i \in 1..26 : UpperCase[i] = c]
    ELSE c

Upper(cs) == [i \in 1..Len(cs) |-> UpperChar(cs[i])]

Lower(cs) == [i \in 1..Len(cs) |-> LowerChar(cs[i])]

RECURSIVE LStrip(_)
LStrip(cs) ==
    IF cs # <<>> /\ Head(cs) \in Whitespace THEN LStrip(Tail(cs)) ELSE cs

RECURSIVE RStripSet(_, _)
RStripSet(cs, drop) ==
    IF cs # <<>> /\ cs[Len(cs)] \in drop
    THEN RStripSet(SubSeq(cs, 1, Len(cs) - 1), drop)
    ELSE cs

\* str.strip()
Strip(cs) == LStrip(RStripSet(cs, Whitespace))

\* str.rstrip("%")
RStripPercent(cs) == RStripSet(cs, {"%"})

RECURSIVE DigitsOfNat(_)
DigitsOfNat(k) ==
    IF k < 10 THEN <<Digits[k + 1]>>
    ELSE DigitsOfNat(k \div 10) \o <<Digits[(k % 10) + 1]>>

RECURSIVE NatOfDigits(_)
NatOfDigits(cs) ==
    IF cs = <<>> THEN 0
    ELSE 10 * NatOfDigits(SubSeq(cs, 1, Len(cs) - 1)) + DigitVal(cs[Len(cs)])

AllDigits(cs) == \A i \in 1..Len(cs) : IsDigit(cs[i])

Abs(i) == IF i < 0 THEN -i ELSE i

Sign(i) == IF i < 0 THEN <<"-">> ELSE <<>>

\* str(i) for an int
StrOfInt(i) == Sign(i) \o DigitsOfNat(Abs(i))

RECURSIVE PadLeft(_, _)
PadLeft(cs, width) == IF Len(cs) >= width THEN cs ELSE PadLeft(<<"0">> \o cs, width)

\* repr of a float below 1e-4: digits sig, decimal exponent -ex
ExponentForm(sig, ex) ==
    <<Head(sig)>> \o (IF Len(sig) > 1 THEN <<".">> \o Tail(sig) ELSE <<>>)
    \o <<"e", "-">> \o PadLeft(DigitsOfNat(ex), 2)

\* repr of a float from 1e-4 upward: integer part ip, fraction digits fr
PositionalForm(ip, fr) ==
    DigitsOfNat(ip) \o <<".">> \o (IF fr = <<>> THEN <<"0">> ELSE fr)

\* repr of a non-negative float a / Scale
StrOfMagnitude(a) ==
    IF a # 0 /\ a < Pow10(FracDigits - 4)
    THEN ExponentForm(RStripSet(DigitsOfNat(a), {"0"}),
                      FracDigits - Len(DigitsOfNat(a)) + 1)
    ELSE PositionalForm(a \div Scale,
                        RStripSet(PadLeft(DigitsOfNat(a % Scale), FracDigits), {"0"}))

\* repr(x) for a finite float x = u / Scale: positional notation from 1e-4
\* upward, exponent notation below (floats of 1e16 and more are out of range)
StrOfFloat(u) == Sign(u) \o StrOfMagnitude(Abs(u))

\* str(val)
StrOf(v) ==
    CASE v.t = "None" -> <<"N", "o", "n", "e">>
      [] v.t = "nan" -> <<"n", "a", "n">>
      [] v.t = "inf" -> Sign(v.n) \o <<"i", "n", "f">>
      [] v.t = "int" -> StrOfInt(v.n)
      [] v.t = "float" -> StrOfFloat(v.n)
      [] OTHER -> v.s

IndexOfDot(cs) ==
    IF \E i \in 1..Len(cs) : cs[i] = "."
    THEN CHOOSE i \in 1..Len(cs) : cs[i] = "." /\ \A j \in 1..(i - 1) : cs[j] # "."
    ELSE 0

\* the float of sign sg, integer digits ip and fraction digits fp
DecimalOf(sg, ip, fp) ==
    IF AllDigits(ip) /\ AllDigits(fp) /\ Len(ip) + Len(fp) > 0
    THEN [exc |-> "none",
          v |-> PyFloat(sg * (NatOfDigits(ip) * Scale
                              + NatOfDigits(SubSeq(fp \o [i \in 1..FracDigits |-> "0"],
                                                   1, FracDigits))))]
    ELSE [exc |-> "ValueError", v |-> None]

\* the float of a numeral without sign, its first point at index dot (or 0)
NumeralOf(sg, body, dot) ==
    IF dot = 0 THEN DecimalOf(sg, body, <<>>)
    ELSE DecimalOf(sg, SubSeq(body, 1, dot - 1), SubSeq(body, dot + 1, Len(body)))

\* the float of a sign and what follows it
SignedOf(sg, body, low) ==
    IF low \in {<<"i", "n", "f">>, <<"i", "n", "f", "i", "n", "i", "t", "y">>}
    THEN [exc |-> "none", v |-> PyInf(sg)]
    ELSE IF low = <<"n", "a", "n">>
    THEN [exc |-> "none", v |-> NaN]
    ELSE NumeralOf(sg, body, IndexOfDot(body))

\* the float of a string without surrounding whitespace
TrimmedOf(t) ==
    IF t # <<>> /\ Head(t) \in {"+", "-"}
    THEN SignedOf(IF Head(t) = "-" THEN -1 ELSE 1, Tail(t), Lower(Tail(t)))
    ELSE SignedOf(1, t, Lower(t))

\* float(s) for a string: surrounding whitespace and a sign are accepted, then
\* inf / infinity / nan in any case, or digits with at most one point.
\* Exponent notation and digit-group underscores are outside the modelled
\* alphabet.  The result is [exc, v]: exc is "none" or the exception raised.
FloatOfStr(cs) == TrimmedOf(Strip(cs))

\* float(val)
FloatOf(v) ==
    CASE v.t = "None" -> [exc |-> "TypeError", v |-> None]
      [] v.t = "int" -> [exc |-> "none", v |-> PyFloat(v.n * Scale)]
      [] v.t = "str" -> FloatOfStr(v.s)
      [] OTHER -> [exc |-> "none", v |-> v]

\* ------------------------------------------------------- float arithmetic

\* n - q on floats
FloatSub(n, q) ==
    CASE n.t = "nan" \/ q.t = "nan" -> NaN
      [] n.t = "inf" /\ q.t = "inf" -> IF n.n = q.n THEN NaN ELSE PyInf(n.n)
      [] n.t = "inf" -> PyInf(n.n)
      [] q.t = "inf" -> PyInf(-q.n)
      [] OTHER -> PyFloat(n.n - q.n)

\* a / step rounded to the nearest integer, a tie to the even one
RoundHalfEven(a, step) ==
    IF 2 * (a % step) > step \/ (2 * (a % step) = step /\ (a \div step) % 2 = 1)
    THEN a \div step + 1
    ELSE a \div step

\* FloatRound with the digits past the sixth dropped instead of rounded
FloatRoundTruncating(x) ==
    IF x.t # "float" THEN x
    ELSE IF x.n < 0
    THEN PyFloat(-(((-x.n) \div Pow10(FracDigits - RoundDigits))
                   * Pow10(FracDigits - RoundDigits)))
    ELSE PyFloat((x.n \div Pow10(FracDigits - RoundDigits))
                 * Pow10(FracDigits - RoundDigits))

\* round(x, 6) on a float: to the nearest multiple of 10^-6, a tie to the even
\* one
FloatRound(x) ==
    IF x.t # "float" THEN x
    ELSE IF x.n < 0
    THEN PyFloat(-(RoundHalfEven(-x.n, Pow10(FracDigits - RoundDigits))
                   * Pow10(FracDigits - RoundDigits)))
    ELSE PyFloat(RoundHalfEven(x.n, Pow10(FracDigits - RoundDigits))
                 * Pow10(FracDigits - RoundDigits))

\* abs(x) <= tolerance, the tolerance a finite number of tol / Scale
AbsLeq(x, tol) ==
    CASE x.t = "float" -> Abs(x.n) <= tol
      [] OTHER -> FALSE

\* x > 0
FloatPositive(x) ==
    CASE x.t = "float" -> x.n > 0
      [] x.t = "inf" -> x.n > 0
      [] OTHER -> FALSE

\* ------------------------------------------------------------ dictionaries

\* d.get(k, default)
Get(d, k, default) == IF k \in DOMAIN d THEN d[k] ELSE default

\* ---------------------------------------------------------- KeyNormalizer

\* int(x) for a float: truncation toward zero
IntOfFloat(x) ==
    CASE x.t = "nan" -> [exc |-> "ValueError", n |-> 0]
      [] x.t = "inf" -> [exc |-> "OverflowError", n |-> 0]
      [] OTHER -> [exc |-> "none",
                   n |-> IF x.n < 0 THEN -((-x.n) \div Scale) ELSE x.n \div Scale]

\* the exceptions the except clause of _normalize_key_part catches
KeyPartCaught == {"ValueError", "TypeError"}

\* int(float(s)): [exc, n]
IntOfParsed(f) == IF f.exc = "none" THEN IntOfFloat(f.v) ELSE [exc |-> f.exc, n |-> 0]

\* KeyPartOf with repr(s) returned by the except clause
KeyPartOfRepr(s, i) ==
    IF i.exc = "none" THEN [exc |-> "none", v |-> StrOfInt(i.n)]
    ELSE IF i.exc \in KeyPartCaught THEN [exc |-> "none", v |-> <<"'">> \o s \o <<"'">>]
    ELSE [exc |-> i.exc, v |-> <<>>]

\* the try / except of _normalize_key_part, i the outcome of int(float(s))
KeyPartOf(s, i) ==
    IF i.exc = "none" THEN [exc |-> "none", v |-> StrOfInt(i.n)]
    ELSE IF i.exc \in KeyPartCaught THEN [exc |-> "none", v |-> s]
    ELSE [exc |-> i.exc, v |-> <<>>]

\* 2 ** 53: from here to 2 ** 54 the floats are the even integers
TwoTo53 ==
    <<"9", "0", "0", "7", "1", "9", "9", "2", "5", "4", "7", "4", "0", "9", "9", "2">>

\* a < b for numerals of one length
DigitsLess(a, b) ==
    \E i \in 1..Len(a) :
        /\ DigitVal(a[i]) < DigitVal(b[i])
        /\ \A j \in 1..(i - 1) : a[j] = b[j]

\* s is the numeral of an integer from 2 ** 53 up to 10 ** 16 - 1
IsBigNumeral(s) ==
    /\ Len(s) = Len(TwoTo53)
    /\ \A i \in 1..Len(s) : IsDigit(s[i])
    /\ ~DigitsLess(s, TwoTo53)

\* the numeral of n + 1
RECURSIVE AddOne(_)
AddOne(cs) ==
    IF cs = <<>> THEN <<"1">>
    ELSE IF cs[Len(cs)] = "9" THEN AddOne(SubSeq(cs, 1, Len(cs) - 1)) \o <<"0">>
    ELSE SubSeq(cs, 1, Len(cs) - 1) \o <<Digits[DigitVal(cs[Len(cs)]) + 2]>>

\* the numeral of n - 1, n odd
SubOne(cs) == SubSeq(cs, 1, Len(cs) - 1) \o <<Digits[DigitVal(cs[Len(cs)])]>>

\* int(float(s)) for a big numeral s: float(s) is the nearest even integer,
\* and of the two neighbours of an odd one the multiple of four (round half
\* to even on the significand)
IntOfBigNumeral(s) ==
    IF DigitVal(s[Len(s)]) % 2 = 0 THEN s
    ELSE IF NatOfDigits(SubSeq(s, Len(s) - 1, Len(s))) % 4 = 1 THEN SubOne(s)
    ELSE AddOne(s)

\* the body of _normalize_key_part after s = str(val).strip()
KeyPartOfStr(s) ==
    IF IsBigNumeral(s) THEN [exc |-> "none", v |-> IntOfBigNumeral(s)]
    ELSE KeyPartOf(s, IntOfParsed(FloatOfStr(s)))

\* _normalize_key_part(val): [exc, v], v the token's characters
NormalizeKeyPart(val) == KeyPartOfStr(Strip(StrOf(val)))

\* ------------------------------------------------------- FieldComparator

\* the exceptions the except clause of _normalize_value catches
NormalizeCaught == {"ValueError", "TypeError"}

\* the try / except of _normalize_value, f the outcome of float(s)
NormalizedOr(val, f) ==
    IF f.exc = "none" THEN f
    ELSE IF f.exc \in NormalizeCaught THEN [exc |-> "none", v |-> val]
    ELSE [exc |-> f.exc, v |-> None]

\* _normalize_value(val, dtype): [exc, v]
NormalizeValue(val, dtype) ==
    IF val.t = "None" \/ (IsFloat(val) /\ val.t = "nan")
    THEN [exc |-> "none", v |-> val]
    ELSE IF dtype = "numeric"
    THEN NormalizedOr(val, FloatOfStr(RStripPercent(Strip(StrOf(val)))))
    ELSE [exc |-> "none", v |-> val]

\* f"{a}{sep}{b}"
Fmt(a, sep, b) == PyStr(StrOf(a) \o sep \o StrOf(b))

\* CompareCaught with an except clause that names TypeError only
CompareCaughtTypeErrorOnly == {"TypeError"}

\* the exceptions the except clause of _compare_values catches
CompareCaught == {"ValueError", "TypeError"}

\* str(qes_val) == str(niq_val), the fallback of a failed numeric parse
FallbackEqual(qes_val, niq_val) == StrOf(qes_val) = StrOf(niq_val)

\* TextEqual without the strip()
TextEqualUntrimmed(qes_val, niq_val) == Upper(StrOf(qes_val)) = Upper(StrOf(niq_val))

\* str(qes_val).strip().upper() == str(niq_val).strip().upper()
TextEqual(qes_val, niq_val) ==
    Upper(Strip(StrOf(qes_val))) = Upper(Strip(StrOf(niq_val)))

\* q, n = float(qes_val), float(niq_val): [exc, q, n]; the second conversion
\* is not reached when the first one raises
FloatPair(q, niq_val) ==
    IF q.exc # "none" THEN [exc |-> q.exc, q |-> None, n |-> None]
    ELSE [exc |-> FloatOf(niq_val).exc, q |-> q.v, n |-> FloatOf(niq_val).v]

\* return abs(diff) <= tolerance, diff
NumericResult(diff, tolerance) ==
    [exc |-> "none", match |-> AbsLeq(diff, tolerance), diff |-> diff]

\* the numeric branch of _compare_values, p the outcome of the conversions
CompareFloats(qes_val, niq_val, p, tolerance) ==
    IF p.exc = "none"
    THEN NumericResult(FloatRound(FloatSub(p.n, p.q)), tolerance)
    ELSE IF p.exc \in CompareCaught
    THEN [exc |-> "none", match |-> FallbackEqual(qes_val, niq_val),
          diff |-> Fmt(qes_val, <<" ", "v", "s", " ">>, niq_val)]
    ELSE [exc |-> p.exc, match |-> FALSE, diff |-> None]

\* the numeric branch of _compare_values
CompareNumeric(qes_val, niq_val, tolerance) ==
    CompareFloats(qes_val, niq_val, FloatPair(FloatOf(qes_val), niq_val), tolerance)

\* diff = "" if match else f"{qes_val} -> {niq_val}"; return match, diff
TextResult(match, qes_val, niq_val) ==
    [exc |-> "none", match |-> match,
     diff |-> IF match THEN PyStr(<<>>)
              ELSE Fmt(qes_val, <<" ", "-", ">", " ">>, niq_val)]

\* the text branch of _compare_values
CompareText(qes_val, niq_val) ==
    TextResult(TextEqual(qes_val, niq_val), qes_val, niq_val)

\* CompareValues with the numeric branch placed ahead of the null checks
CompareValuesNumericFirst(qes_val, niq_val, dtype, tolerance, labels) ==
    IF dtype = "numeric"
    THEN CompareNumeric(qes_val, niq_val, tolerance)
    ELSE IF IsNa(qes_val) /\ IsNa(niq_val)
    THEN [exc |-> "none", match |-> TRUE, diff |-> PyInt(0)]
    ELSE IF IsNa(qes_val) \/ IsNa(niq_val)
    THEN [exc |-> "none", match |-> FALSE, diff |-> labels["null_vs_value"]]
    ELSE CompareText(qes_val, niq_val)

\* _compare_values(qes_val, niq_val, dtype, tolerance, labels): [exc, match, diff]
CompareValues(qes_val, niq_val, dtype, tolerance, labels) ==
    IF IsNa(qes_val) /\ IsNa(niq_val)
    THEN [exc |-> "none", match |-> TRUE, diff |-> PyInt(0)]
    ELSE IF IsNa(qes_val) \/ IsNa(niq_val)
    THEN [exc |-> "none", match |-> FALSE, diff |-> labels["null_vs_value"]]
    ELSE IF dtype = "numeric"
    THEN CompareNumeric(qes_val, niq_val, tolerance)
    ELSE CompareText(qes_val, niq_val)

\* ---------------------------------------------------- DirectionClassifier

\* the exceptions the except clause of _compute_direction catches
DirectionCaught == {"ValueError", "TypeError"}

\* the if / elif / else on diff = n - q
DirectionOfDiff(diff, tolerance, labels) ==
    IF AbsLeq(diff, tolerance)
    THEN Get(labels, "same", PyStr(<<"S", "A", "M", "E">>))
    ELSE IF FloatPositive(diff)
    THEN Get(labels, "higher", PyStr(<<"H", "I", "G", "H", "E", "R">>))
    ELSE Get(labels, "lower", PyStr(<<"L", "O", "W", "E", "R">>))

\* the numeric branch of _compute_direction, p the outcome of the conversions
DirectionOfFloats(p, tolerance, labels) ==
    IF p.exc = "none"
    THEN [exc |-> "none", v |-> DirectionOfDiff(FloatSub(p.n, p.q), tolerance, labels)]
    ELSE IF p.exc \in DirectionCaught
    THEN [exc |-> "none", v |-> PyStr(<<>>)]
    ELSE [exc |-> p.exc, v |-> None]

\* the numeric branch of _compute_direction
DirectionNumeric(qes_val, niq_val, tolerance, labels) ==
    DirectionOfFloats(FloatPair(FloatOf(qes_val), niq_val), tolerance, labels)

\* _compute_direction(qes_val, niq_val, dtype, tolerance, labels): [exc, v]
ComputeDirection(qes_val, niq_val, dtype, tolerance, labels) ==
    IF IsNa(qes_val) \/ IsNa(niq_val)
    THEN [exc |-> "none", v |-> PyStr(<<>>)]
    ELSE IF dtype = "numeric"
    THEN DirectionNumeric(qes_val, niq_val, tolerance, labels)
    ELSE [exc |-> "none", v |-> PyStr(<<>>)]

\* ------------------------------------------------------------- Partitioner

\* the characters in code point order, for the comparison of strings (the
\* double quote, the backslash and the backtick are left out: no modelled
\* string holds them)
CodePoints ==
    <<"\t", "\n", " ", "!", "#", "$", "%", "&", "'", "(", ")", "*", "+", ",",
      "-", ".", "/", "0", "1", "2", "3", "4", "5", "6", "7", "8", "9", ":", ";",
      "<", "=", ">", "?", "@", "A", "B", "C", "D", "E", "F", "G", "H", "I", "J",
      "K", "L", "M", "N", "O", "P", "Q", "R", "S", "T", "U", "V", "W", "X", "Y",
      "Z", "[", "]", "^", "_", "a", "b", "c", "d", "e", "f", "g", "h",
      "i", "j", "k", "l", "m", "n", "o", "p", "q", "r", "s", "t", "u", "v", "w",
      "x", "y", "z", "{", "|", "}", "~">>

Ord(c) == CHOOSE i \in 1..Len(CodePoints) : CodePoints[i] = c

\* a < b on strings
RECURSIVE StrLess(_, _)
StrLess(a, b) ==
    IF b = <<>> THEN FALSE
    ELSE IF a = <<>> THEN TRUE
    ELSE IF Head(a) = Head(b) THEN StrLess(Tail(a), Tail(b))
    ELSE Ord(Head(a)) < Ord(Head(b))

\* min(keys)
Least(keys) == CHOOSE k \in keys : \A o \in keys \ {k} : StrLess(k, o)

\* sorted(keys) for a set of strings
RECURSIVE Sorted(_)
Sorted(keys) ==
    IF keys = {} THEN <<>>
    ELSE <<Least(keys)>> \o Sorted(keys \ {Least(keys)})

\* sep.join(parts)
RECURSIVE Join(_, _)
Join(sep, parts) ==
    IF parts = <<>> THEN <<>>
    ELSE IF Len(parts) = 1 THEN parts[1]
    ELSE parts[1] \o sep \o Join(sep, Tail(parts))

\* the separator of the join key
KeySeparator == <<"|">>

\* col.map(_normalize_key_part) on every key column: for each record the
\* tuple of its normalized key tokens, each [exc, v]
KeyTokens(df, key_cols) ==
    [r \in 1..Len(df) |->
        [i \in 1..Len(key_cols) |-> NormalizeKeyPart(df[r][key_cols[i]])]]

\* the key columns in which some value makes _normalize_key_part raise
FailingColumns(tok, ncols) ==
    {c \in 1..ncols : \E r \in 1..Len(tok) : tok[r][c].exc # "none"}

\* the exception of the first failing value of column c
FirstException(tok, c) ==
    tok[CHOOSE r \in 1..Len(tok) :
            /\ tok[r][c].exc # "none"
            /\ \A q \in 1..(r - 1) : tok[q][c].exc = "none"][c].exc

\* .agg("|".join, axis=1) when every token was computed; otherwise the
\* exception: the columns are mapped one after the other, so it is that of
\* the first key column holding a failing value
JoinTokens(tok, ncols, bad) ==
    IF bad = {}
    THEN [exc |-> "none",
          keys |-> [r \in 1..Len(tok) |->
                       Join(KeySeparator, [i \in 1..ncols |-> tok[r][i].v])]]
    ELSE [exc |-> FirstException(tok, CHOOSE c \in bad : \A d \in bad : c <= d),
          keys |-> <<>>]

\* the tokens joined, or the exception
KeysOfTokens(tok, ncols) == JoinTokens(tok, ncols, FailingColumns(tok, ncols))

\* df[key_cols].apply(lambda col: col.map(_normalize_key_part)).agg("|".join, axis=1):
\* [exc, keys], keys the _join_key of every record in order
JoinKeys(df, key_cols) == KeysOfTokens(KeyTokens(df, key_cols), Len(key_cols))

\* set(df[join_key])
KeySet(keys) == {keys[i] : i \in 1..Len(keys)}

\* Loc taking the last of the records that carry the key
LocLast(df, keys, jk) ==
    df[CHOOSE i \in 1..Len(df) : keys[i] = jk /\ \A j \in (i + 1)..Len(df) : keys[j] # jk]

\* idx.loc[jk], and iloc[0] when several records carry the key
Loc(df, keys, jk) ==
    df[CHOOSE i \in 1..Len(df) : keys[i] = jk /\ \A j \in 1..(i - 1) : keys[j] # jk]

\* ------------------------------------------------------------ RowAssembler

\* a row is a dict that keeps the order of insertion: a sequence of cells
ColumnsOf(row) == [i \in 1..Len(row) |-> row[i].col]

HasColumn(row, col) == \E i \in 1..Len(row) : row[i].col = col

\* row[col]
Cell(row, col) == row[CHOOSE i \in 1..Len(row) : row[i].col = col].val

\* row[col] = val
DictSet(row, col, val) ==
    IF HasColumn(row, col)
    THEN [i \in 1..Len(row) |->
             IF row[i].col = col THEN [col |-> col, val |-> val] ELSE row[i]]
    ELSE Append(row, [col |-> col, val |-> val])

RowSourceCol == <<"R", "o", "w", "_", "S", "o", "u", "r", "c", "e">>

OverallMatchCol == <<"O", "v", "e", "r", "a", "l", "l", "_", "M", "a", "t", "c", "h">>

QesCol(lbl) == <<"Q", "E", "S", "_">> \o lbl

NiqCol(lbl) == <<"N", "I", "Q", "_">> \o lbl

DiffCol(lbl) == <<"D", "i", "f", "f", "_">> \o lbl

MatchCol(lbl) == <<"M", "a", "t", "c", "h", "_">> \o lbl

DirectionCol(lbl) == <<"D", "i", "r", "e", "c", "t", "i", "o", "n", "_">> \o lbl

SourceBoth == PyStr(<<"B", "o", "t", "h">>)

SourceQesOnly == PyStr(<<"Q", "E", "S", " ", "O", "n", "l", "y">>)

SourceNiqOnly == PyStr(<<"N", "I", "Q", " ", "O", "n", "l", "y">>)

\* cc.get("dtype", "text")
DtypeOf(cc) == Get(cc, "dtype", "text")

\* cc.get("tolerance", 0)
ToleranceOf(cc) == Get(cc, "tolerance", 0)

\* cc.get("value_map"); an absent map is the empty one, both are falsy
ValueMapOf(cc) == Get(cc, "value_map", [k \in {} |-> None])

\* cc.get("direction_indicator")
DirectionOf(cc) == Get(cc, "direction_indicator", FALSE)

\* ApplyValueMap looking the value up by str(qval_norm), not stripped
ApplyValueMapUnstripped(vmap, qval_norm) ==
    IF DOMAIN vmap # {} /\ qval_norm.t # "None"
    THEN Get(vmap, StrOf(qval_norm), qval_norm)
    ELSE qval_norm

\* the value_map applied to the normalized QES value
ApplyValueMap(vmap, qval_norm) ==
    IF DOMAIN vmap # {} /\ qval_norm.t # "None"
    THEN Get(vmap, Strip(StrOf(qval_norm)), qval_norm)
    ELSE qval_norm

\* SetKeys naming each key column after the field it is read from
RECURSIVE SetKeysSourceNames(_, _, _, _, _)
SetKeysSourceNames(row, rec, key_qes, src_cols, i) ==
    IF i > Len(key_qes) THEN row
    ELSE SetKeysSourceNames(DictSet(row, src_cols[i], rec[src_cols[i]]),
                            rec, key_qes, src_cols, i + 1)

\* for kc in key_qes: row[kc] = rec[src_cols[i]]
RECURSIVE SetKeys(_, _, _, _, _)
SetKeys(row, rec, key_qes, src_cols, i) ==
    IF i > Len(key_qes) THEN row
    ELSE SetKeys(DictSet(row, key_qes[i], rec[src_cols[i]]), rec, key_qes, src_cols, i + 1)

\* cc[k] raises KeyError for some k of names: the entry has no such key
LacksKey(cc, names) == \E k \in names : k \notin DOMAIN cc

\* row[f"Diff_{lbl}"], row[f"Match_{lbl}"] and, for a direction column,
\* row[f"Direction_{lbl}"] of a Both row: [exc, row, match]
BothFlags(row, cmp, dir, cc, labels) ==
    IF cmp.exc # "none" THEN [exc |-> cmp.exc, row |-> row, match |-> FALSE]
    ELSE IF ~DirectionOf(cc)
    THEN [exc |-> "none", match |-> cmp.match,
          row |-> DictSet(DictSet(row, DiffCol(cc["label"]), cmp.diff),
                          MatchCol(cc["label"]),
                          IF cmp.match THEN labels["match"] ELSE labels["mismatch"])]
    ELSE IF dir.exc # "none" THEN [exc |-> dir.exc, row |-> row, match |-> FALSE]
    ELSE [exc |-> "none", match |-> cmp.match,
          row |-> DictSet(DictSet(DictSet(row, DiffCol(cc["label"]), cmp.diff),
                                  MatchCol(cc["label"]),
                                  IF cmp.match THEN labels["match"]
                                  ELSE labels["mismatch"]),
                          DirectionCol(cc["label"]), dir.v)]

\* the two value cells, then the comparison and the direction of the
\* normalized values
BothCells(row, qval, nval, qval_norm, nval_norm, cc, labels) ==
    BothFlags(DictSet(DictSet(row, QesCol(cc["label"]),
                              IF qval_norm.t # "None" THEN qval_norm ELSE qval),
                      NiqCol(cc["label"]),
                      IF nval_norm.t # "None" THEN nval_norm ELSE nval),
              CompareValues(qval_norm, nval_norm, DtypeOf(cc), ToleranceOf(cc), labels),
              ComputeDirection(qval_norm, nval_norm, DtypeOf(cc), ToleranceOf(cc), labels),
              cc, labels)

\* the value_map applied to the normalized QES value
BothNormalized(row, qval, nval, qn, nn, cc, labels) ==
    IF qn.exc # "none" THEN [exc |-> qn.exc, row |-> row, match |-> FALSE]
    ELSE IF nn.exc # "none" THEN [exc |-> nn.exc, row |-> row, match |-> FALSE]
    ELSE BothCells(row, qval, nval, ApplyValueMap(ValueMapOf(cc), qn.v), nn.v, cc, labels)

\* the two values normalized
BothValues(row, qval, nval, cc, labels) ==
    BothNormalized(row, qval, nval, NormalizeValue(qval, DtypeOf(cc)),
                   NormalizeValue(nval, DtypeOf(cc)), cc, labels)

\* one compare column of a Both row: [exc, row, match]
BothColumn(row, qr, nr, cc, labels) ==
    IF LacksKey(cc, {"qes_col", "niq_col", "label"})
    THEN [exc |-> "KeyError", row |-> row, match |-> FALSE]
    ELSE BothValues(row, Get(qr, cc["qes_col"], None), Get(nr, cc["niq_col"], None),
                    cc, labels)

\* BothStep with any_mismatch assigned from the last column alone
BothStepLastColumn(acc, one) ==
    [exc |-> one.exc, row |-> one.row,
     any_mismatch |-> one.exc = "none" /\ ~one.match]

\* if not match: any_mismatch = True, after one column of a Both row
BothStep(acc, one) ==
    [exc |-> one.exc, row |-> one.row,
     any_mismatch |-> acc.any_mismatch \/ (one.exc = "none" /\ ~one.match)]

\* for cc in compare_cols of a Both row, from column i: [exc, row, any_mismatch].
\* acc is the outcome of the columns before i.
RECURSIVE BothColumns(_, _, _, _, _, _)
BothColumns(acc, qr, nr, compare_cols, labels, i) ==
    IF i > Len(compare_cols) \/ acc.exc # "none" THEN acc
    ELSE BothColumns(BothStep(acc, BothColumn(acc.row, qr, nr, compare_cols[i], labels)),
                     qr, nr, compare_cols, labels, i + 1)

\* ac["x_col"] if ac.get("x_col"), read from rec
AdditionalValue(rec, ac, side) ==
    IF side \in DOMAIN ac /\ ac[side] # <<>> THEN Get(rec, ac[side], None) ELSE None

\* lbl = ac["label"] raises KeyError for an entry without a label
AdditionalExc(additional_cols) ==
    IF \E i \in 1..Len(additional_cols) : LacksKey(additional_cols[i], {"label"})
    THEN "KeyError" ELSE "none"

\* for ac in additional_cols, from column i; has_q and has_n tell which
\* sides the row has
RECURSIVE AdditionalColumns(_, _, _, _, _, _, _)
AdditionalColumns(row, qr, nr, has_q, has_n, additional_cols, i) ==
    IF i > Len(additional_cols) THEN row
    ELSE AdditionalColumns(
             DictSet(DictSet(row, QesCol(additional_cols[i]["label"]),
                             IF has_q
                             THEN AdditionalValue(qr, additional_cols[i], "qes_col")
                             ELSE None),
                     NiqCol(additional_cols[i]["label"]),
                     IF has_n
                     THEN AdditionalValue(nr, additional_cols[i], "niq_col")
                     ELSE None),
             qr, nr, has_q, has_n, additional_cols, i + 1)

\* the additional columns and row["Overall_Match"] of a Both row: [exc, row]
BothTail(cols, qr, nr, c) ==
    IF cols.exc # "none" THEN [exc |-> cols.exc, row |-> cols.row]
    ELSE IF AdditionalExc(c.additional_result_columns) # "none"
    THEN [exc |-> AdditionalExc(c.additional_result_columns), row |-> cols.row]
    ELSE [exc |-> "none",
          row |-> DictSet(AdditionalColumns(cols.row, qr, nr, TRUE, TRUE,
                                            c.additional_result_columns, 1),
                          OverallMatchCol,
                          IF cols.any_mismatch
                          THEN c.output.labels["overall_mismatch"]
                          ELSE c.output.labels["overall_match"])]

\* the body of the loop over both_keys: [exc, row]
BothRowOf(qr, nr, c) ==
    BothTail(BothColumns([exc |-> "none", any_mismatch |-> FALSE,
                          row |-> SetKeys(<<[col |-> RowSourceCol, val |-> SourceBoth]>>,
                                          qr, c.key_columns.qes, c.key_columns.qes, 1)],
                         qr, nr, c.compare_columns, c.output.labels, 1),
             qr, nr, c)

\* QesOnlyCells4 with the Match flag taken from the mismatch label
QesOnlyCells4Mismatch(row, qval, qval_norm, cc, labels) ==
    DictSet(DictSet(DictSet(DictSet(row, QesCol(cc["label"]),
                                    IF qval_norm.t # "None" THEN qval_norm ELSE qval),
                            NiqCol(cc["label"]), None),
                    DiffCol(cc["label"]), labels["na_qes_only"]),
            MatchCol(cc["label"]), labels["mismatch"])

\* the QES, NIQ, Diff and Match cells of one compare column of a QES Only row
QesOnlyCells4(row, qval, qval_norm, cc, labels) ==
    DictSet(DictSet(DictSet(DictSet(row, QesCol(cc["label"]),
                                    IF qval_norm.t # "None" THEN qval_norm ELSE qval),
                            NiqCol(cc["label"]), None),
                    DiffCol(cc["label"]), labels["na_qes_only"]),
            MatchCol(cc["label"]), labels["warning"])

\* the cells of one compare column of a QES Only row
QesOnlyCells(row, qval, qval_norm, cc, labels) ==
    IF DirectionOf(cc)
    THEN DictSet(QesOnlyCells4(row, qval, qval_norm, cc, labels),
                 DirectionCol(cc["label"]), labels["na_qes_only"])
    ELSE QesOnlyCells4(row, qval, qval_norm, cc, labels)

\* one compare column of a QES Only row: [exc, row]
QesOnlyColumn(row, qval, qn, cc, labels) ==
    IF qn.exc # "none" THEN [exc |-> qn.exc, row |-> row]
    ELSE [exc |-> "none",
          row |-> QesOnlyCells(row, qval, ApplyValueMap(ValueMapOf(cc), qn.v), cc, labels)]

\* for cc in compare_cols of a QES Only row, from column i: [exc, row]
RECURSIVE QesOnlyColumns(_, _, _, _, _)
QesOnlyColumns(acc, qr, compare_cols, labels, i) ==
    IF i > Len(compare_cols) \/ acc.exc # "none" THEN acc
    ELSE IF LacksKey(compare_cols[i], {"label", "qes_col"})
    THEN [exc |-> "KeyError", row |-> acc.row]
    ELSE QesOnlyColumns(
             QesOnlyColumn(acc.row, Get(qr, compare_cols[i]["qes_col"], None),
                           NormalizeValue(Get(qr, compare_cols[i]["qes_col"], None),
                                          DtypeOf(compare_cols[i])),
                           compare_cols[i], labels),
             qr, compare_cols, labels, i + 1)

\* the additional columns and row["Overall_Match"] of a QES Only row
QesOnlyTail(cols, qr, c) ==
    IF cols.exc # "none" THEN cols
    ELSE IF AdditionalExc(c.additional_result_columns) # "none"
    THEN [exc |-> AdditionalExc(c.additional_result_columns), row |-> cols.row]
    ELSE [exc |-> "none",
          row |-> DictSet(AdditionalColumns(cols.row, qr, qr, TRUE, FALSE,
                                            c.additional_result_columns, 1),
                          OverallMatchCol, c.output.labels["overall_qes_only"])]

\* the body of the loop over qes_only_keys: [exc, row]
QesOnlyRowOf(qr, c) ==
    QesOnlyTail(QesOnlyColumns([exc |-> "none",
                                row |-> SetKeys(<<[col |-> RowSourceCol,
                                                   val |-> SourceQesOnly]>>,
                                                qr, c.key_columns.qes,
                                                c.key_columns.qes, 1)],
                               qr, c.compare_columns, c.output.labels, 1),
                qr, c)

\* the QES, NIQ, Diff and Match cells of one compare column of a NIQ Only row
NiqOnlyCells4(row, nval, nval_norm, cc, labels) ==
    DictSet(DictSet(DictSet(DictSet(row, QesCol(cc["label"]), None),
                            NiqCol(cc["label"]),
                            IF Truthy(nval_norm) THEN nval_norm ELSE nval),
                    DiffCol(cc["label"]), labels["na_niq_only"]),
            MatchCol(cc["label"]), labels["warning"])

\* the cells of one compare column of a NIQ Only row
NiqOnlyCells(row, nval, nval_norm, cc, labels) ==
    IF DirectionOf(cc)
    THEN DictSet(NiqOnlyCells4(row, nval, nval_norm, cc, labels),
                 DirectionCol(cc["label"]), labels["na_niq_only"])
    ELSE NiqOnlyCells4(row, nval, nval_norm, cc, labels)

\* one compare column of a NIQ Only row: [exc, row]
NiqOnlyColumn(row, nval, nn, cc, labels) ==
    IF nn.exc # "none" THEN [exc |-> nn.exc, row |-> row]
    ELSE [exc |-> "none", row |-> NiqOnlyCells(row, nval, nn.v, cc, labels)]

\* for cc in compare_cols of a NIQ Only row, from column i: [exc, row]
RECURSIVE NiqOnlyColumns(_, _, _, _, _)
NiqOnlyColumns(acc, nr, compare_cols, labels, i) ==
    IF i > Len(compare_cols) \/ acc.exc # "none" THEN acc
    ELSE IF LacksKey(compare_cols[i], {"label", "niq_col"})
    THEN [exc |-> "KeyError", row |-> acc.row]
    ELSE NiqOnlyColumns(
             NiqOnlyColumn(acc.row, Get(nr, compare_cols[i]["niq_col"], None),
                           NormalizeValue(Get(nr, compare_cols[i]["niq_col"], None),
                                          DtypeOf(compare_cols[i])),
                           compare_cols[i], labels),
             nr, compare_cols, labels, i + 1)

\* the additional columns and row["Overall_Match"] of a NIQ Only row
NiqOnlyTail(cols, nr, c) ==
    IF cols.exc # "none" THEN cols
    ELSE IF AdditionalExc(c.additional_result_columns) # "none"
    THEN [exc |-> AdditionalExc(c.additional_result_columns), row |-> cols.row]
    ELSE [exc |-> "none",
          row |-> DictSet(AdditionalColumns(cols.row, nr, nr, FALSE, TRUE,
                                            c.additional_result_columns, 1),
                          OverallMatchCol, c.output.labels["overall_niq_only"])]

\* the body of the loop over niq_only_keys: [exc, row]
NiqOnlyRowOf(nr, c) ==
    NiqOnlyTail(NiqOnlyColumns([exc |-> "none",
                                row |-> SetKeys(<<[col |-> RowSourceCol,
                                                   val |-> SourceNiqOnly]>>,
                                                nr, c.key_columns.qes,
                                                c.key_columns.niq, 1)],
                               nr, c.compare_columns, c.output.labels, 1),
                nr, c)

\* ------------------------------------------------------- ColumnOrderResolver

\* c in cols
InSeq(c, cols) == \E i \in 1..Len(cols) : cols[i] = c

\* [c for c in cols if c in allowed]
RECURSIVE KeepIn(_, _)
KeepIn(cols, allowed) ==
    IF cols = <<>> THEN <<>>
    ELSE (IF InSeq(Head(cols), allowed) THEN <<Head(cols)>> ELSE <<>>)
         \o KeepIn(Tail(cols), allowed)

\* [c for c in cols if c not in excluded]
RECURSIVE KeepOut(_, _)
KeepOut(cols, excluded) ==
    IF cols = <<>> THEN <<>>
    ELSE (IF InSeq(Head(cols), excluded) THEN <<>> ELSE <<Head(cols)>>)
         \o KeepOut(Tail(cols), excluded)

\* pd.DataFrame(results).columns: the keys of the row dicts in the order of
\* their first appearance, from row i on; acc holds the columns found so far
RECURSIVE FrameColumns(_, _, _)
FrameColumns(rows, i, acc) ==
    IF i > Len(rows) THEN acc
    ELSE FrameColumns(rows, i + 1, acc \o KeepOut(ColumnsOf(rows[i]), acc))

\* token.startswith(prefix)
StartsWith(token, prefix) ==
    Len(token) >= Len(prefix) /\ SubSeq(token, 1, Len(prefix)) = prefix

\* token.endswith("}")
EndsWithBrace(token) == token # <<>> /\ token[Len(token)] = "}"

KeysToken == <<"{", "k", "e", "y", "s", "}">>

RowSourceToken == <<"{", "r", "o", "w", "_", "s", "o", "u", "r", "c", "e", "}">>

OverallMatchToken ==
    <<"{", "o", "v", "e", "r", "a", "l", "l", "_", "m", "a", "t", "c", "h", "}">>

ComparePrefix == <<"{", "c", "o", "m", "p", "a", "r", "e", ":">>

AdditionalPrefix == <<"{", "a", "d", "d", "i", "t", "i", "o", "n", "a", "l", ":">>

\* token[len(prefix):-1]
LabelOfToken(token, prefix) == SubSeq(token, Len(prefix) + 1, Len(token) - 1)

\* CompareExpansion without the Direction column
CompareExpansionNoDirection(lbl, df_columns) ==
    <<QesCol(lbl), NiqCol(lbl), DiffCol(lbl), MatchCol(lbl)>>

\* the columns of a {compare:lbl} token
CompareExpansion(lbl, df_columns) ==
    <<QesCol(lbl), NiqCol(lbl), DiffCol(lbl), MatchCol(lbl)>>
    \o (IF InSeq(DirectionCol(lbl), df_columns) THEN <<DirectionCol(lbl)>> ELSE <<>>)

\* what one stripped token adds to ordered
ExpandToken(token, key_qes, df_columns) ==
    IF token = KeysToken THEN key_qes
    ELSE IF token = RowSourceToken THEN <<RowSourceCol>>
    ELSE IF token = OverallMatchToken THEN <<OverallMatchCol>>
    ELSE IF StartsWith(token, ComparePrefix) /\ EndsWithBrace(token)
    THEN CompareExpansion(LabelOfToken(token, ComparePrefix), df_columns)
    ELSE IF StartsWith(token, AdditionalPrefix) /\ EndsWithBrace(token)
    THEN <<QesCol(LabelOfToken(token, AdditionalPrefix)),
           NiqCol(LabelOfToken(token, AdditionalPrefix))>>
    ELSE <<token>>

\* for token in order_cfg, from token i on
RECURSIVE ExpandTemplate(_, _, _, _)
ExpandTemplate(order_cfg, key_qes, df_columns, i) ==
    IF i > Len(order_cfg) THEN <<>>
    ELSE ExpandToken(Strip(order_cfg[i]), key_qes, df_columns)
         \o ExpandTemplate(order_cfg, key_qes, df_columns, i + 1)

\* ordered + remaining
OrderedAndRemaining(ordered, df_columns) == ordered \o KeepOut(df_columns, ordered)

\* _apply_column_order(df, cfg), on the columns of df
ApplyColumnOrder(df_columns, c) ==
    IF Get(c, "result_column_order", <<>>) = <<>> THEN df_columns
    ELSE OrderedAndRemaining(
             KeepIn(ExpandTemplate(c["result_column_order"], c["key_columns"].qes,
                                   df_columns, 1),
                    df_columns),
             df_columns)

\* ------------------------------------------------------------------ state

VARIABLES
    pc,              \* position of compare_network_adequacy
    qes_na, niq_na,  \* the two datasets: sequences of records
    cfg,             \* the configuration
    qes_keys,        \* the _join_key column of qes_work
    niq_keys,        \* the _join_key column of niq_work
    todo,            \* the keys the running loop has still to visit, sorted
    results,         \* the rows appended so far
    raised,          \* the exception that ended the run, or "none"
    fc,              \* one field pair taken through the FieldComparator
    kn,              \* one pair of key values taken through the KeyNormalizer
    columns,         \* the columns of the returned frame, in order
    summary          \* the counts and the match rate of the summary

vars == <<pc, qes_na, niq_na, cfg, qes_keys, niq_keys, todo, results, raised, fc, kn, columns, summary>>

runVars ==
    <<pc, qes_na, niq_na, cfg, qes_keys, niq_keys, todo, results, raised, kn, columns, summary>>

runVarsOfKey ==
    <<pc, qes_na, niq_na, cfg, qes_keys, niq_keys, todo, results, raised, columns, summary>>

\* ------------------------------------------------------------------ labels

\* the defaults load_config gives the labels
DefaultLabels ==
    [match |-> PyStr(<<"M", "A", "T", "C", "H">>),
     mismatch |-> PyStr(<<"M", "I", "S", "M", "A", "T", "C", "H">>),
     warning |-> PyStr(<<"W", "A", "R", "N", "I", "N", "G">>),
     overall_match |-> PyStr(<<"M", "A", "T", "C", "H">>),
     overall_mismatch |-> PyStr(<<"M", "I", "S", "M", "A", "T", "C", "H">>),
     overall_qes_only |-> PyStr(<<"Q", "E", "S", " ", "O", "N", "L", "Y">>),
     overall_niq_only |-> PyStr(<<"N", "I", "Q", " ", "O", "N", "L", "Y">>),
     na_qes_only |-> PyStr(<<"N", "/", "A", " ", "-", " ", "Q", "E", "S", " ", "O", "n", "l", "y">>),
     na_niq_only |-> PyStr(<<"N", "/", "A", " ", "-", " ", "N", "I", "Q", " ", "O", "n", "l", "y">>),
     null_vs_value |-> PyStr(<<"N", "U", "L", "L", " ", "v", "s", " ", "v", "a", "l", "u", "e">>),
     higher |-> PyStr(<<"H", "I", "G", "H", "E", "R">>),
     lower |-> PyStr(<<"L", "O", "W", "E", "R">>),
     same |-> PyStr(<<"S", "A", "M", "E">>),
     match_indicator |-> PyStr(<<"M", "a", "t", "c", "h">>),
     no_match_indicator |-> PyStr(<<"D", "o", "n", "'", "t", " ", "M", "a", "t", "c", "h">>)]

\* ------------------------------------------- FieldComparator, one field pair

NoValue == [exc |-> "pending", v |-> None]

NoCompare == [exc |-> "pending", match |-> FALSE, diff |-> None]

\* no summary yet
NoSummary ==
    [total |-> 0, both |-> 0, matches |-> 0, mismatches |-> 0, qes_only |-> 0,
     niq_only |-> 0, match_pct |-> <<>>]

\* no token yet
NoToken == [exc |-> "pending", v |-> <<>>]

\* no key value under normalization
KnIdle ==
    [stage |-> "idle", key_val |-> None, other_val |-> None,
     once |-> NoToken, other_once |-> NoToken,
     twice |-> NoToken, other_twice |-> NoToken]

FcIdle ==
    [qes_val |-> None, niq_val |-> None, dtype |-> "idle", tolerance |-> 0,
     labels |-> DefaultLabels, qnorm |-> NoValue, nnorm |-> NoValue,
     cmp |-> NoCompare, dir |-> NoValue, cmpDirect |-> NoCompare,
     dirDirect |-> NoValue]

\* the values a field of a record may hold
FieldValues ==
    {None, NaN, PyInt(10),
     PyFloat(10 * Scale), PyFloat(10 * Scale + 1),
     PyFloat(10 * Scale + 5 * Pow10(FracDigits - 3)),
     PyFloat(10 * Scale + 5 * Pow10(FracDigits - 2)),
     PyStr(<<"1", "0">>), PyStr(<<" ", "1", "0", ".", "0", "5", "%", " ">>),
     PyStr(<<"a", "b", "c">>), PyStr(<<"A", "B", "C">>),
     PyStr(<<" ", "a", "b", "c">>),
     PyStr(<<"i", "n", "f">>), PyStr(<<"n", "a", "n">>), PyStr(<<>>)}

Dtypes == {"numeric", "text"}

\* tolerances 0 and 0.01
Tolerances == {0, Pow10(FracDigits - 2)}

FcInit ==
    /\ pc = "idle"
    /\ qes_na = <<>> /\ niq_na = <<>>
    /\ cfg = [labels |-> DefaultLabels]
    /\ qes_keys = <<>> /\ niq_keys = <<>>
    /\ todo = <<>>
    /\ results = <<>>
    /\ raised = "none"
    /\ kn = KnIdle
    /\ columns = <<>>
    /\ summary = NoSummary
    /\ \E q \in FieldValues, n \in FieldValues, d \in Dtypes, tol \in Tolerances :
           fc = [FcIdle EXCEPT !.qes_val = q, !.niq_val = n, !.dtype = d,
                               !.tolerance = tol]

\* qval_norm = _normalize_value(qval, dtype); nval_norm likewise
CallNormalizeValue ==
    /\ fc.dtype # "idle"
    /\ fc.qnorm.exc = "pending"
    /\ fc' = [fc EXCEPT !.qnorm = NormalizeValue(fc.qes_val, fc.dtype),
                        !.nnorm = IF NormalizeValue(fc.qes_val, fc.dtype).exc = "none"
                                  THEN NormalizeValue(fc.niq_val, fc.dtype)
                                  ELSE NoValue]
    /\ UNCHANGED runVars

\* match, diff = _compare_values(qval_norm, nval_norm, dtype, tol, labels)
CallCompareValues ==
    /\ fc.qnorm.exc = "none" /\ fc.nnorm.exc = "none"
    /\ fc.cmp.exc = "pending"
    /\ fc' = [fc EXCEPT !.cmp = CompareValues(fc.qnorm.v, fc.nnorm.v, fc.dtype,
                                              fc.tolerance, fc.labels)]
    /\ UNCHANGED runVars

\* _compute_direction(qval_norm, nval_norm, dtype, tol, labels)
CallComputeDirection ==
    /\ fc.cmp.exc = "none"
    /\ fc.dir.exc = "pending"
    /\ fc' = [fc EXCEPT !.dir = ComputeDirection(fc.qnorm.v, fc.nnorm.v, fc.dtype,
                                                 fc.tolerance, fc.labels)]
    /\ UNCHANGED runVars

\* _compare_values called on the values as given
CallCompareValuesDirect ==
    /\ fc.dtype # "idle"
    /\ fc.cmpDirect.exc = "pending"
    /\ fc' = [fc EXCEPT !.cmpDirect = CompareValues(fc.qes_val, fc.niq_val, fc.dtype,
                                                    fc.tolerance, fc.labels)]
    /\ UNCHANGED runVars

\* _compute_direction called on the values as given
CallComputeDirectionDirect ==
    /\ fc.dtype # "idle"
    /\ fc.dirDirect.exc = "pending"
    /\ fc' = [fc EXCEPT !.dirDirect = ComputeDirection(fc.qes_val, fc.niq_val, fc.dtype,
                                                       fc.tolerance, fc.labels)]
    /\ UNCHANGED runVars

FcNext ==
    \/ CallNormalizeValue
    \/ CallCompareValues
    \/ CallComputeDirection
    \/ CallCompareValuesDirect
    \/ CallComputeDirectionDirect

FieldSpec == FcInit /\ [][FcNext]_vars

\* ------------------------------------------------- compare_network_adequacy

\* dataset column names
QState == <<"S", "t", "a", "t", "e">>

QCounty == <<"C", "o", "u", "n", "t", "y">>

QCount == <<"C", "o", "u", "n", "t">>

QStd == <<"S", "t", "d">>

QMem == <<"M", "e", "m">>

NState == <<"s", "t">>

NCounty == <<"c", "o">>

NCount == <<"c", "n", "t">>

NStd == <<"s", "t", "d">>

NMem == <<"m", "e", "m">>

TX == PyStr(<<"T", "X">>)

QesRecord(st, co, cnt, std, mem) ==
    (QState :> st) @@ (QCounty :> co) @@ (QCount :> cnt) @@ (QStd :> std)
    @@ (QMem :> mem)

NiqRecord(st, co, cnt, std, mem) ==
    (NState :> st) @@ (NCounty :> co) @@ (NCount :> cnt) @@ (NStd :> std)
    @@ (NMem :> mem)

\* the records a QES dataset is drawn from
QesRecords ==
    {QesRecord(TX, PyStr(<<"0", "1", "1">>), PyInt(10), PyStr(<<"O", "K">>), PyInt(1)),
     QesRecord(TX, PyStr(<<"0", "1", "1">>), PyStr(<<"a", "b", "c">>), PyStr(<<"N">>), None),
     QesRecord(PyStr(<<"a", "|", "b">>), PyStr(<<"c">>), PyInt(20), PyStr(<<"Y">>), PyInt(2)),
     QesRecord(PyStr(<<"T">>), PyStr(<<"X">>), None, PyStr(<<" ", "y", " ">>), PyInt(3))}

\* the records a NIQ dataset is drawn from
NiqRecords ==
    {NiqRecord(TX, PyInt(11), PyFloat(10 * Scale), PyStr(<<" ", "y", " ">>), PyInt(1)),
     NiqRecord(TX, PyFloat(11 * Scale), PyStr(<<"a", "b", "c">>), PyStr(<<"N">>), None),
     NiqRecord(PyStr(<<"a">>), PyStr(<<"b", "|", "c">>), PyStr(<<"2", "2", "%">>),
               PyStr(<<"Y">>), PyInt(2)),
     NiqRecord(TX, PyStr(<<"B">>), PyStr(<<"0", "%">>), PyStr(<<"N">>), PyInt(4)),
     NiqRecord(TX, PyStr(<<"i", "n", "f">>), PyInt(10), PyStr(<<"Y">>), PyInt(5))}

\* the most records a dataset holds
MaxRows == 2

Datasets(records) == UNION {[1..k -> records] : k \in 0..MaxRows}

CountColumn ==
    [qes_col |-> QCount, niq_col |-> NCount, label |-> <<"C", "n", "t">>,
     dtype |-> "numeric", tolerance |-> Pow10(FracDigits - 2),
     direction_indicator |-> TRUE]

StdColumn ==
    [qes_col |-> QStd, niq_col |-> NStd, label |-> <<"S", "t", "d">>,
     value_map |-> (<<"O", "K">> :> PyStr(<<"Y">>))]

MemColumn == [qes_col |-> QMem, niq_col |-> NMem, label |-> <<"M", "e", "m">>]

\* labels of a configuration that gives several flags one display string
SharedLabels ==
    [DefaultLabels EXCEPT !.warning = DefaultLabels.mismatch,
                          !.overall_qes_only = DefaultLabels.overall_match,
                          !.overall_niq_only = DefaultLabels.overall_match]

ConfigOf(labels) ==
    [key_columns |-> [qes |-> <<QState, QCounty>>, niq |-> <<NState, NCounty>>],
     compare_columns |-> <<CountColumn, StdColumn>>,
     additional_result_columns |-> <<MemColumn>>,
     output |-> [labels |-> labels]]

Configs == {ConfigOf(DefaultLabels), ConfigOf(SharedLabels)}

Init ==
    /\ pc = "start"
    /\ qes_na \in Datasets(QesRecords)
    /\ niq_na \in Datasets(NiqRecords)
    /\ cfg \in Configs
    /\ qes_keys = <<>> /\ niq_keys = <<>>
    /\ todo = <<>>
    /\ results = <<>>
    /\ raised = "none"
    /\ fc = FcIdle
    /\ kn = KnIdle
    /\ columns = <<>>
    /\ summary = NoSummary

both_keys == KeySet(qes_keys) \cap KeySet(niq_keys)

\* qes_only_keys without the set difference
qes_only_keys_all == KeySet(qes_keys)

qes_only_keys == KeySet(qes_keys) \ KeySet(niq_keys)

niq_only_keys == KeySet(niq_keys) \ KeySet(qes_keys)

\* the two _join_key columns are stored, the key sets partitioned and the
\* loop over sorted(both_keys) begins; an exception of the key building
\* ends the run
Partition(qk, nk) ==
    IF qk.exc # "none"
    THEN raised' = qk.exc /\ UNCHANGED <<pc, qes_keys, niq_keys, todo>>
    ELSE IF nk.exc # "none"
    THEN raised' = nk.exc /\ UNCHANGED <<pc, qes_keys, niq_keys, todo>>
    ELSE /\ qes_keys' = qk.keys
         /\ niq_keys' = nk.keys
         /\ todo' = Sorted(KeySet(qk.keys) \cap KeySet(nk.keys))
         /\ pc' = "both"
         /\ UNCHANGED raised

\* the _join_key columns are computed and the key sets partitioned
NormalizeKeys ==
    /\ pc = "start" /\ raised = "none"
    /\ Partition(JoinKeys(qes_na, cfg.key_columns.qes),
                 JoinKeys(niq_na, cfg.key_columns.niq))
    /\ UNCHANGED <<qes_na, niq_na, cfg, results, fc, kn, columns, summary>>

\* results.append(row), or the exception of the row's computation ends the run
AppendRow(r) ==
    IF r.exc = "none"
    THEN /\ results' = Append(results, r.row)
         /\ todo' = Tail(todo)
         /\ UNCHANGED raised
    ELSE /\ raised' = r.exc
         /\ UNCHANGED <<results, todo>>

\* one pass of "for jk in sorted(both_keys)"
BothRow ==
    /\ pc = "both" /\ raised = "none" /\ todo # <<>>
    /\ AppendRow(BothRowOf(Loc(qes_na, qes_keys, Head(todo)),
                           Loc(niq_na, niq_keys, Head(todo)), cfg))
    /\ UNCHANGED <<pc, qes_na, niq_na, cfg, qes_keys, niq_keys, fc, kn, columns, summary>>

\* the loop over both_keys ends, the one over sorted(qes_only_keys) begins
StartQesOnly ==
    /\ pc = "both" /\ raised = "none" /\ todo = <<>>
    /\ pc' = "qes_only"
    /\ todo' = Sorted(qes_only_keys)
    /\ UNCHANGED <<qes_na, niq_na, cfg, qes_keys, niq_keys, results, raised, fc, kn, columns, summary>>

\* one pass of "for jk in sorted(qes_only_keys)"
QesOnlyRow ==
    /\ pc = "qes_only" /\ raised = "none" /\ todo # <<>>
    /\ AppendRow(QesOnlyRowOf(Loc(qes_na, qes_keys, Head(todo)), cfg))
    /\ UNCHANGED <<pc, qes_na, niq_na, cfg, qes_keys, niq_keys, fc, kn, columns, summary>>

\* the loop over qes_only_keys ends, the one over sorted(niq_only_keys) begins
StartNiqOnly ==
    /\ pc = "qes_only" /\ raised = "none" /\ todo = <<>>
    /\ pc' = "niq_only"
    /\ todo' = Sorted(niq_only_keys)
    /\ UNCHANGED <<qes_na, niq_na, cfg, qes_keys, niq_keys, results, raised, fc, kn, columns, summary>>

\* one pass of "for jk in sorted(niq_only_keys)"
NiqOnlyRow ==
    /\ pc = "niq_only" /\ raised = "none" /\ todo # <<>>
    /\ AppendRow(NiqOnlyRowOf(Loc(niq_na, niq_keys, Head(todo)), cfg))
    /\ UNCHANGED <<pc, qes_na, niq_na, cfg, qes_keys, niq_keys, fc, kn, columns, summary>>

\* the exception of _print_summary: a DataFrame built from no rows has no
\* column, and result_df["Row_Source"] raises KeyError
SummaryExc(rows) == IF rows = <<>> THEN "KeyError" ELSE "none"

\* len(result_df[result_df[col] == val])
CountWhere(rows, col, val) ==
    Cardinality({i \in 1..Len(rows) : HasColumn(rows[i], col) /\ Cell(rows[i], col) = val})

\* round(1000 * matches / both), ties to the even one
TenthsOfPercent(matches, both) ==
    IF 2 * ((1000 * matches) % both) > both
       \/ (2 * ((1000 * matches) % both) = both /\ ((1000 * matches) \div both) % 2 = 1)
    THEN (1000 * matches) \div both + 1
    ELSE (1000 * matches) \div both

\* f"{x:.1f}%" for x = tenths / 10
FormatPercent(tenths) ==
    DigitsOfNat(tenths \div 10) \o <<".", Digits[(tenths % 10) + 1], "%">>

NotAvailable == <<"N", "/", "A">>

\* f"{matches/both*100:.1f}%" if both > 0 else "N/A"
MatchRate(matches, both) ==
    IF both > 0 THEN FormatPercent(TenthsOfPercent(matches, both)) ELSE NotAvailable

\* SummaryOf with the total taken over the Both rows
SummaryOfBothRows(rows, labels) ==
    [total |-> CountWhere(rows, RowSourceCol, SourceBoth),
     both |-> CountWhere(rows, RowSourceCol, SourceBoth),
     matches |-> CountWhere(rows, OverallMatchCol, labels["overall_match"]),
     mismatches |-> CountWhere(rows, OverallMatchCol, labels["overall_mismatch"]),
     qes_only |-> CountWhere(rows, RowSourceCol, SourceQesOnly),
     niq_only |-> CountWhere(rows, RowSourceCol, SourceNiqOnly),
     match_pct |-> MatchRate(CountWhere(rows, OverallMatchCol, labels["overall_match"]),
                             CountWhere(rows, RowSourceCol, SourceBoth))]

\* the counts of the summary and the match rate derived from them
SummaryOf(rows, labels) ==
    [total |-> Len(rows),
     both |-> CountWhere(rows, RowSourceCol, SourceBoth),
     matches |-> CountWhere(rows, OverallMatchCol, labels["overall_match"]),
     mismatches |-> CountWhere(rows, OverallMatchCol, labels["overall_mismatch"]),
     qes_only |-> CountWhere(rows, RowSourceCol, SourceQesOnly),
     niq_only |-> CountWhere(rows, RowSourceCol, SourceNiqOnly),
     match_pct |-> MatchRate(CountWhere(rows, OverallMatchCol, labels["overall_match"]),
                             CountWhere(rows, RowSourceCol, SourceBoth))]

\* result_df = pd.DataFrame(results), the column order, the summary, return
Finish ==
    /\ pc = "niq_only" /\ raised = "none" /\ todo = <<>>
    /\ IF SummaryExc(results) = "none"
       THEN /\ pc' = "done"
            /\ columns' = ApplyColumnOrder(FrameColumns(results, 1, <<>>), cfg)
            /\ summary' = SummaryOf(results, cfg.output.labels)
            /\ UNCHANGED raised
       ELSE raised' = SummaryExc(results) /\ UNCHANGED <<pc, columns, summary>>
    /\ UNCHANGED <<qes_na, niq_na, cfg, qes_keys, niq_keys, todo, results, fc, kn>>

Next ==
    \/ NormalizeKeys
    \/ BothRow
    \/ StartQesOnly
    \/ QesOnlyRow
    \/ StartNiqOnly
    \/ NiqOnlyRow
    \/ Finish

Spec == Init /\ [][Next]_vars

\* ------------------------------------------------ _apply_column_order, alone

\* the tokens a result_column_order is drawn from: the five token forms, one
\* of them with blanks around it, a literal that names an assembled column, a
\* literal and a compare label that name none
OrderTokens ==
    {KeysToken, <<" ">> \o RowSourceToken \o <<" ">>, OverallMatchToken,
     ComparePrefix \o CountColumn["label"] \o <<"}">>,
     ComparePrefix \o StdColumn["label"] \o <<"}">>,
     AdditionalPrefix \o MemColumn["label"] \o <<"}">>,
     QState, <<"N", "o", "p", "e">>, ComparePrefix \o <<"Z", "z", "}">>}

\* the most tokens a result_column_order holds
MaxTemplate == 3

Templates == UNION {[1..k -> OrderTokens] : k \in 0..MaxTemplate}

\* the rows of an assembled frame: one Both row
SampleRows ==
    <<BothRowOf(QesRecord(TX, PyStr(<<"0", "1", "1">>), PyInt(10), PyStr(<<"O", "K">>), PyInt(1)),
                NiqRecord(TX, PyInt(11), PyFloat(10 * Scale), PyStr(<<" ", "y", " ">>), PyInt(1)),
                ConfigOf(DefaultLabels)).row>>

OrderInit ==
    /\ pc = "order"
    /\ qes_na = <<>> /\ niq_na = <<>>
    /\ \E t \in Templates :
           cfg = [key_columns |-> ConfigOf(DefaultLabels).key_columns,
                  compare_columns |-> ConfigOf(DefaultLabels).compare_columns,
                  additional_result_columns |-> ConfigOf(DefaultLabels).additional_result_columns,
                  output |-> ConfigOf(DefaultLabels).output,
                  result_column_order |-> t]
    /\ qes_keys = <<>> /\ niq_keys = <<>>
    /\ todo = <<>>
    /\ results = SampleRows
    /\ raised = "none"
    /\ fc = FcIdle
    /\ kn = KnIdle
    /\ columns = <<>>
    /\ summary = NoSummary

\* result_df = _apply_column_order(result_df, cfg)
CallApplyColumnOrder ==
    /\ pc = "order"
    /\ pc' = "ordered"
    /\ columns' = ApplyColumnOrder(FrameColumns(results, 1, <<>>), cfg)
    /\ UNCHANGED <<qes_na, niq_na, cfg, qes_keys, niq_keys, todo, results, raised, fc, kn, summary>>

OrderSpec == OrderInit /\ [][CallApplyColumnOrder]_vars

\* ------------------------------------------------------------ ConfigLoader

RequiredTop == {"state", "qes", "niq", "key_columns", "compare_columns", "output"}

NiqSourceTypes == {"rds", "mock", "csv", "excel"}

QesSourceTypes == {"excel", "csv"}

\* _validate: the exception it raises, "none" when every assertion passes
Validate(c) ==
    IF \E k \in RequiredTop : k \notin DOMAIN c THEN "AssertionError"
    ELSE IF LacksKey(c.key_columns, {"qes", "niq"}) THEN "KeyError"
    ELSE IF Len(c.key_columns.qes) # Len(c.key_columns.niq) THEN "AssertionError"
    ELSE IF \E i \in 1..Len(c.compare_columns) :
                LacksKey(c.compare_columns[i], {"qes_col", "niq_col"})
    THEN "AssertionError"
    ELSE IF LacksKey(c.niq, {"source_type"}) THEN "KeyError"
    ELSE IF c.niq.source_type \notin NiqSourceTypes THEN "AssertionError"
    ELSE IF Get(c.qes, "source_type", "") \notin QesSourceTypes \cup {""}
    THEN "AssertionError"
    ELSE IF /\ Get(Get(c, "chunked_loading", <<>>), "enabled", FALSE)
            /\ Get(c.chunked_loading, "chunk_size", 0) <= 0
    THEN "AssertionError"
    ELSE "none"

\* WithLabelDefaults with labels[k] = v in the place of setdefault
WithLabelDefaultsAssigned(labels) ==
    [k \in DOMAIN DefaultLabels \cup DOMAIN labels |->
        IF k \in DOMAIN DefaultLabels THEN DefaultLabels[k] ELSE labels[k]]

\* for k, v in defaults.items(): labels.setdefault(k, v)
WithLabelDefaults(labels) ==
    [k \in DOMAIN DefaultLabels \cup DOMAIN labels |->
        IF k \in DOMAIN labels THEN labels[k] ELSE DefaultLabels[k]]

\* entry.get(a) or entry.get(b); the empty name stands for None
NameOr(entry, a, b) ==
    IF Get(entry, a, <<>>) # <<>> THEN entry[a] ELSE Get(entry, b, <<>>)

UnknownLabel == <<"U", "n", "k", "n", "o", "w", "n">>

\* label = entry.get("label"); if not label: label = qes or niq or "Unknown"
LabelOfEntry(entry, qes, niq) ==
    IF Get(entry, "label", <<>>) # <<>> THEN entry["label"]
    ELSE IF qes # <<>> THEN qes
    ELSE IF niq # <<>> THEN niq
    ELSE UnknownLabel

\* one entry of additional_result_columns in the verbose format
NormalizeAdditionalEntry(entry) ==
    IF "qes_col" \in DOMAIN entry THEN entry
    ELSE [qes_col |-> NameOr(entry, "qes", "qes_col"),
          niq_col |-> NameOr(entry, "niq", "niq_col"),
          label |-> LabelOfEntry(entry, NameOr(entry, "qes", "qes_col"),
                                 NameOr(entry, "niq", "niq_col"))]

NormalizeAdditionalColumns(cols) ==
    [i \in 1..Len(cols) |-> NormalizeAdditionalEntry(cols[i])]

\* cfg["output"] with the labels defaulted
OutputWithDefaults(output) ==
    [k \in DOMAIN output \cup {"labels"} |->
        IF k = "labels" THEN WithLabelDefaults(Get(output, "labels", <<>>))
        ELSE output[k]]

\* the configuration load_config returns for a file that passes _validate
LoadedConfig(c) ==
    [k \in DOMAIN c \cup {"additional_result_columns", "chunked_loading", "summary"} |->
        IF k = "output" THEN OutputWithDefaults(c.output)
        ELSE IF k = "additional_result_columns"
        THEN NormalizeAdditionalColumns(Get(c, k, <<>>))
        ELSE IF k = "chunked_loading" THEN Get(c, k, [enabled |-> FALSE])
        ELSE IF k = "summary" THEN Get(c, k, <<>>)
        ELSE c[k]]

\* ------------------------------------- load_config, then the comparison

Without(d, k) == [j \in DOMAIN d \ {k} |-> d[j]]

\* the character of code point 10003 (a check mark), which no string literal
\* of the module can hold
CheckMark == "U+2713"

\* a configuration file that names every key, with the additional column in
\* the compact format and one label of its own
RawBase ==
    [state |-> "TX",
     qes |-> [source_type |-> "excel"],
     niq |-> [source_type |-> "csv"],
     key_columns |-> [qes |-> <<QState, QCounty>>, niq |-> <<NState, NCounty>>],
     compare_columns |-> <<CountColumn, StdColumn>>,
     additional_result_columns |-> <<[qes |-> QMem, niq |-> NMem]>>,
     output |-> [labels |-> [warning |-> PyStr(<<"W", "A", "R", "N">>)]]]

\* the configuration files: the complete one and its variants with one thing
\* missing, mismatched, repeated or out of range
RawConfigs ==
    {RawBase,
     Without(RawBase, "state"),
     Without(RawBase, "additional_result_columns"),
     [RawBase EXCEPT !.output = <<>>],
     [RawBase EXCEPT !.output =
         [labels |-> [match |-> PyStr(<<CheckMark, " ", "O", "K">>),
                      same |-> PyStr(<<"=">>)]]],
     [RawBase EXCEPT !.key_columns.niq = <<NState>>],
     [RawBase EXCEPT !.compare_columns =
         <<CountColumn, [qes_col |-> QStd, label |-> StdColumn.label]>>],
     [RawBase EXCEPT !.compare_columns =
         <<CountColumn, [qes_col |-> QStd, niq_col |-> NStd]>>],
     [RawBase EXCEPT !.compare_columns =
         <<CountColumn, [StdColumn EXCEPT !.label = CountColumn.label]>>],
     [RawBase EXCEPT !.additional_result_columns =
         <<[qes |-> QMem, niq |-> NMem, label |-> CountColumn.label]>>],
     [RawBase EXCEPT !.additional_result_columns =
         <<[qes_col |-> QMem, niq_col |-> NMem]>>],
     [RawBase EXCEPT !.additional_result_columns = <<[niq |-> NMem]>>],
     [RawBase EXCEPT !.niq = [source_type |-> "oracle"]],
     [RawBase EXCEPT !.qes = [source_type |-> "parquet"]],
     [k \in DOMAIN RawBase \cup {"chunked_loading"} |->
         IF k = "chunked_loading" THEN [enabled |-> TRUE, chunk_size |-> 0]
         ELSE RawBase[k]]}

\* QES datasets with a key of both sides and, in the longer one, a key of
\* its own
ConfigQes ==
    {<<QesRecord(TX, PyStr(<<"0", "1", "1">>), PyInt(10), PyStr(<<"O", "K">>), PyInt(1))>>,
     <<QesRecord(TX, PyStr(<<"0", "1", "1">>), PyInt(10), PyStr(<<"O", "K">>), PyInt(1)),
       QesRecord(PyStr(<<"T">>), PyStr(<<"X">>), None, PyStr(<<" ", "y", " ">>), PyInt(3))>>}

ConfigNiq ==
    {<<NiqRecord(TX, PyInt(11), PyFloat(10 * Scale), PyStr(<<" ", "y", " ">>), PyInt(1))>>,
     <<NiqRecord(TX, PyInt(11), PyFloat(10 * Scale), PyStr(<<" ", "y", " ">>), PyInt(1)),
       NiqRecord(TX, PyStr(<<"B">>), PyStr(<<"0", "%">>), PyStr(<<"N">>), PyInt(4))>>}

ConfigInit ==
    /\ pc = "config"
    /\ qes_na \in ConfigQes
    /\ niq_na \in ConfigNiq
    /\ cfg \in RawConfigs
    /\ qes_keys = <<>> /\ niq_keys = <<>>
    /\ todo = <<>>
    /\ results = <<>>
    /\ raised = "none"
    /\ fc = FcIdle
    /\ kn = KnIdle
    /\ columns = <<>>
    /\ summary = NoSummary

\* cfg = load_config(path): the file is rejected, or the loaded configuration
\* goes to the comparison
LoadConfig ==
    /\ pc = "config" /\ raised = "none"
    /\ IF Validate(cfg) # "none"
       THEN raised' = Validate(cfg) /\ UNCHANGED <<pc, cfg>>
       ELSE cfg' = LoadedConfig(cfg) /\ pc' = "start" /\ UNCHANGED raised
    /\ UNCHANGED <<qes_na, niq_na, qes_keys, niq_keys, todo, results, fc, kn, columns, summary>>

ConfigNext ==
    \/ LoadConfig
    \/ NormalizeKeys
    \/ BothRow
    \/ StartQesOnly
    \/ QesOnlyRow
    \/ StartNiqOnly
    \/ NiqOnlyRow
    \/ Finish

ConfigSpec == ConfigInit /\ [][ConfigNext]_vars

\* ------------------------------------------- KeyNormalizer, one pair of keys

\* the values a key column may hold: spellings of 11, of 0 and of -3, values
\* that are no integers, text, and numerals from 2 ** 53 upward
KeyValues ==
    {None, NaN, PyInt(11), PyInt(0), PyInt(-3),
     PyFloat(11 * Scale), PyFloat(112 * Pow10(FracDigits - 1)),
     PyFloat(117 * Pow10(FracDigits - 1)), PyFloat(-3 * Scale),
     PyStr(<<"1", "1">>), PyStr(<<"0", "1", "1">>), PyStr(<<" ", "1", "1", " ">>),
     PyStr(<<"1", "1", ".", "0">>), PyStr(<<"-", "0", "3">>), PyStr(<<"0", "0">>),
     PyStr(<<"a", "b", "c">>), PyStr(<<" ", "a", " ", "b", " ">>), PyStr(<<>>),
     PyStr(<<"n", "a", "n">>), PyStr(<<"i", "n", "f">>),
     PyStr(TwoTo53), PyStr(AddOne(TwoTo53)), PyStr(AddOne(AddOne(AddOne(TwoTo53))))}

KeyInit ==
    /\ pc = "idle"
    /\ qes_na = <<>> /\ niq_na = <<>>
    /\ cfg = [labels |-> DefaultLabels]
    /\ qes_keys = <<>> /\ niq_keys = <<>>
    /\ todo = <<>>
    /\ results = <<>>
    /\ raised = "none"
    /\ fc = FcIdle
    /\ columns = <<>>
    /\ summary = NoSummary
    /\ \E a \in KeyValues, b \in KeyValues :
           kn = [KnIdle EXCEPT !.stage = "input", !.key_val = a, !.other_val = b]

\* _normalize_key_part(val) for the two values
CallNormalizeKeyPart ==
    /\ kn.stage = "input"
    /\ kn' = [kn EXCEPT !.stage = "once",
                        !.once = NormalizeKeyPart(kn.key_val),
                        !.other_once = NormalizeKeyPart(kn.other_val)]
    /\ UNCHANGED <<runVarsOfKey, fc>>

\* _normalize_key_part of a token it returned; tok is [exc, v]
NormalizeAgain(tok) ==
    IF tok.exc = "none" THEN NormalizeKeyPart(PyStr(tok.v)) ELSE NoToken

\* _normalize_key_part applied to the tokens of the first call
CallNormalizeAgain ==
    /\ kn.stage = "once"
    /\ kn' = [kn EXCEPT !.stage = "twice",
                        !.twice = NormalizeAgain(kn.once),
                        !.other_twice = NormalizeAgain(kn.other_once)]
    /\ UNCHANGED <<runVarsOfKey, fc>>

KeyNext == CallNormalizeKeyPart \/ CallNormalizeAgain

KeySpec == KeyInit /\ [][KeyNext]_vars

\* ------------------------------------ one compare column with a value_map

\* the vocabulary map of the column: OK is the right side's Y, and 10, as a
\* text and as the float a numeric column makes of it, is 20
Vocabulary ==
    (<<"O", "K">> :> PyStr(<<"Y">>))
    @@ (<<"1", "0">> :> PyStr(<<"2", "0">>))
    @@ (<<"1", "0", ".", "0">> :> PyStr(<<"2", "0">>))

\* the compare columns: text and numeric, with the map and without it
MapColumns ==
    {[qes_col |-> QStd, niq_col |-> NStd, label |-> <<"S", "t", "d">>, dtype |-> d] : d \in Dtypes}
    \cup {[qes_col |-> QStd, niq_col |-> NStd, label |-> <<"S", "t", "d">>, dtype |-> d,
            value_map |-> Vocabulary] : d \in Dtypes}

MapLeftValues ==
    {None, NaN, PyStr(<<"O", "K">>), PyStr(<<" ", "O", "K", " ">>), PyStr(<<"o", "k">>),
     PyStr(<<"Y">>), PyInt(10), PyStr(<<"1", "0">>), PyStr(<<"1", "0", "%">>),
     PyFloat(10 * Scale), PyStr(<<"a", "b", "c">>)}

MapRightValues ==
    {None, PyStr(<<"Y">>), PyStr(<<" ", "y", " ">>), PyStr(<<"O", "K">>),
     PyStr(<<"2", "0">>), PyInt(20), PyInt(10), PyStr(<<"a", "b", "c">>)}

MapInit ==
    /\ pc = "map"
    /\ \E q \in MapLeftValues : qes_na = <<(QStd :> q)>>
    /\ \E n \in MapRightValues : niq_na = <<(NStd :> n)>>
    /\ \E cc \in MapColumns :
           cfg = [compare_columns |-> <<cc>>, output |-> [labels |-> DefaultLabels]]
    /\ qes_keys = <<>> /\ niq_keys = <<>>
    /\ todo = <<>>
    /\ results = <<>>
    /\ raised = "none"
    /\ fc = FcIdle
    /\ kn = KnIdle
    /\ columns = <<>>
    /\ summary = NoSummary

\* the body of for cc in compare_cols, for the one column of the one record
\* pair
CallBothColumn ==
    /\ pc = "map"
    /\ pc' = "mapped"
    /\ results' = <<BothColumn(<<>>, qes_na[1], niq_na[1], cfg.compare_columns[1],
                               cfg.output.labels).row>>
    /\ raised' = BothColumn(<<>>, qes_na[1], niq_na[1], cfg.compare_columns[1],
                            cfg.output.labels).exc
    /\ UNCHANGED <<qes_na, niq_na, cfg, qes_keys, niq_keys, todo, fc, kn, columns, summary>>

MapSpec == MapInit /\ [][CallBothColumn]_vars

\* ------------------------------------------------------ _load_csv_chunked

\* pd.read_csv on the cells of one column: integers when every cell is a
\* numeral, the texts otherwise
ParseCells(cells) ==
    IF cells # <<>> /\ \A i \in 1..Len(cells) : AllDigits(cells[i])
    THEN [i \in 1..Len(cells) |-> PyInt(NatOfDigits(cells[i]))]
    ELSE [i \in 1..Len(cells) |-> PyStr(cells[i])]

\* pd.read_csv on lines of the file: each row with its filter cell parsed
ReadCsv(lines) ==
    [i \in 1..Len(lines) |->
        [line |-> lines[i].line,
         val |-> ParseCells([j \in 1..Len(lines) |-> lines[j].cell])[i]]]

\* frame[frame[filter_col] == filter_val]
RECURSIVE FilterRows(_, _)
FilterRows(frame, filter_val) ==
    IF frame = <<>> THEN <<>>
    ELSE (IF Head(frame).val = filter_val THEN <<Head(frame)>> ELSE <<>>)
         \o FilterRows(Tail(frame), filter_val)

\* the first chunk of the lines left
FirstChunk(lines, chunk_size) ==
    SubSeq(lines, 1, IF Len(lines) < chunk_size THEN Len(lines) ELSE chunk_size)

\* the lines after the first chunk
AfterChunk(lines, chunk_size) ==
    SubSeq(lines, (IF Len(lines) < chunk_size THEN Len(lines) ELSE chunk_size) + 1,
           Len(lines))

\* chunks with the filtered rows of one chunk appended, when the filter
\* column is there and a row is left
WithFiltered(chunks, chunk, c) ==
    IF c.has_filter_col /\ FilterRows(ReadCsv(chunk), c.filter_val) # <<>>
    THEN Append(chunks, FilterRows(ReadCsv(chunk), c.filter_val))
    ELSE chunks

\* pd.concat(chunks, ignore_index=True)
RECURSIVE Concat(_)
Concat(chunks) == IF chunks = <<>> THEN <<>> ELSE Head(chunks) \o Concat(Tail(chunks))

\* the whole file read at once and filtered, as load_qes_data does when it
\* does not chunk: [exc, rows]
WholeFileFiltered(lines, c) ==
    IF ~c.has_filter_col THEN [exc |-> "KeyError", rows |-> <<>>]
    ELSE [exc |-> "none", rows |-> FilterRows(ReadCsv(lines), c.filter_val)]

\* the cells of the filter column
FilterCells == {<<"T", "X">>, <<"C", "A">>, <<"4", "8">>}

\* the most lines of a file
MaxFileRows == 3

\* the largest chunk_size
MaxChunkSize == 3

CsvFiles ==
    UNION {[1..k -> FilterCells] : k \in 0..MaxFileRows}

ChunkInit ==
    /\ pc = "chunk"
    /\ \E f \in CsvFiles :
           /\ qes_na = [i \in 1..Len(f) |-> [line |-> i, cell |-> f[i]]]
           /\ todo = [i \in 1..Len(f) |-> [line |-> i, cell |-> f[i]]]
    /\ niq_na = <<>>
    /\ \E n \in 1..MaxChunkSize, v \in {PyStr(<<"T", "X">>), PyStr(<<"4", "8">>)},
          h \in BOOLEAN :
           cfg = [chunk_size |-> n, filter_val |-> v, has_filter_col |-> h]
    /\ qes_keys = <<>> /\ niq_keys = <<>>
    /\ results = <<>>
    /\ raised = "none"
    /\ fc = FcIdle
    /\ kn = KnIdle
    /\ columns = <<>>
    /\ summary = NoSummary

\* one turn of for chunk in pd.read_csv(file_path, chunksize=chunk_size)
ReadChunk ==
    /\ pc = "chunk" /\ todo # <<>>
    /\ results' = WithFiltered(results, FirstChunk(todo, cfg.chunk_size), cfg)
    /\ todo' = AfterChunk(todo, cfg.chunk_size)
    /\ UNCHANGED <<pc, qes_na, niq_na, cfg, qes_keys, niq_keys, raised, fc, kn, columns,
                   summary>>

\* result = pd.concat(chunks, ignore_index=True) if chunks else pd.DataFrame()
ConcatChunks ==
    /\ pc = "chunk" /\ todo = <<>>
    /\ pc' = "chunked"
    /\ results' = Concat(results)
    /\ UNCHANGED <<qes_na, niq_na, cfg, qes_keys, niq_keys, todo, raised, fc, kn, columns,
                   summary>>

ChunkNext == ReadChunk \/ ConcatChunks

ChunkSpec == ChunkInit /\ [][ChunkNext]_vars

\* ------------------------------------------------------------- properties

\* the join key of a result row, from its key cells
RowKey(row) ==
    Join(KeySeparator,
         [i \in 1..Len(cfg.key_columns.qes) |->
             NormalizeKeyPart(Cell(row, cfg.key_columns.qes[i])).v])

\* the Row_Source a key is to get
SourceOfKey(k) ==
    IF k \in KeySet(qes_keys) /\ k \in KeySet(niq_keys) THEN SourceBoth
    ELSE IF k \in KeySet(qes_keys) THEN SourceQesOnly
    ELSE SourceNiqOnly

\* the three loops have run to their end
LoopsOver == pc = "done" \/ (pc = "niq_only" /\ todo = <<>>)

\* the rows of the given Row_Source
RowsOf(source) ==
    {i \in 1..Len(results) : Cell(results[i], RowSourceCol) = source}

\* C1: the rows emitted carry pairwise distinct join keys, each a key of the
\* left or the right dataset, each with the Row_Source of its membership (Both,
\* QES Only, NIQ Only); when the loops are over there is a row for every key
\* of leftKeys \cup rightKeys, however many records share a key.
C1_OneRowPerKey ==
    /\ \A i \in 1..Len(results) :
           /\ RowKey(results[i]) \in KeySet(qes_keys) \cup KeySet(niq_keys)
           /\ Cell(results[i], RowSourceCol) = SourceOfKey(RowKey(results[i]))
           /\ \A j \in 1..Len(results) :
                  RowKey(results[i]) = RowKey(results[j]) => i = j
    /\ LoopsOver =>
           {RowKey(results[i]) : i \in 1..Len(results)}
               = KeySet(qes_keys) \cup KeySet(niq_keys)

\* a finished run over a left dataset whose two records share one key, with a
\* Both row and a NIQ Only row
C1_Witness ==
    /\ pc = "done"
    /\ Len(qes_keys) = 2 /\ qes_keys[1] = qes_keys[2]
    /\ RowsOf(SourceBoth) # {} /\ RowsOf(SourceNiqOnly) # {}
    /\ Len(results) = 2

\* every compare column of the row carries the match label
AllColumnsMatch(row) ==
    \A c \in 1..Len(cfg.compare_columns) :
        Cell(row, MatchCol(cfg.compare_columns[c]["label"])) = cfg.output.labels["match"]

\* Overall_Match of a row is as the claim states it
OverallAsClaimed(row) ==
    /\ Cell(row, OverallMatchCol) = cfg.output.labels["overall_match"]
           <=> (Cell(row, RowSourceCol) = SourceBoth /\ AllColumnsMatch(row))
    /\ (Cell(row, RowSourceCol) = SourceBoth /\ ~AllColumnsMatch(row))
           => Cell(row, OverallMatchCol) = cfg.output.labels["overall_mismatch"]

\* the overall_match label is the display string of no other overall flag
OverallMatchLabelDistinct ==
    cfg.output.labels["overall_match"] \notin
        {cfg.output.labels["overall_mismatch"], cfg.output.labels["overall_qes_only"],
         cfg.output.labels["overall_niq_only"]}

\* C2 as stated: every row carries the overall-match label iff it is a Both
\* row all of whose compare columns matched, a Both row with a mismatching
\* column carries the overall-mismatch label.
C2_OverallMatchAsStated ==
    \A i \in 1..Len(results) : OverallAsClaimed(results[i])

\* C2: when the overall_match label differs from the overall_mismatch,
\* overall_qes_only and overall_niq_only labels, every row carries the
\* overall-match label iff it is a Both row all of whose compare columns
\* matched, and a Both row with a mismatching column carries the
\* overall-mismatch label.
C2_OverallMatch ==
    OverallMatchLabelDistinct => \A i \in 1..Len(results) : OverallAsClaimed(results[i])

\* a finished run with distinct labels, a Both row that matches overall and a
\* Both row that does not
C2_Witness ==
    /\ pc = "done"
    /\ OverallMatchLabelDistinct
    /\ \E i \in RowsOf(SourceBoth) :
           Cell(results[i], OverallMatchCol) = cfg.output.labels["overall_match"]
    /\ \E i \in RowsOf(SourceBoth) :
           Cell(results[i], OverallMatchCol) = cfg.output.labels["overall_mismatch"]

\* C3: a left and a right record carry the same join key iff their tuples of
\* normalized key tokens are equal position by position.
C3_JoinedIffTokensEqual ==
    pc # "start" =>
        \A i \in 1..Len(qes_na), j \in 1..Len(niq_na) :
            qes_keys[i] = niq_keys[j]
                <=> KeyTokens(qes_na, cfg.key_columns.qes)[i]
                        = KeyTokens(niq_na, cfg.key_columns.niq)[j]

\* the value is null: None or NaN
IsNull(v) == v \in {None, NaN}

\* C4: _compare_values on two null values returns match = true and diff = 0,
\* on exactly one null value match = false and diff = the null_vs_value
\* label, whatever the dtype and the tolerance.
C4_NullHandling ==
    fc.cmpDirect.exc # "pending" =>
        /\ (IsNull(fc.qes_val) /\ IsNull(fc.niq_val))
               => fc.cmpDirect = [exc |-> "none", match |-> TRUE, diff |-> PyInt(0)]
        /\ (IsNull(fc.qes_val) # IsNull(fc.niq_val))
               => fc.cmpDirect = [exc |-> "none", match |-> FALSE,
                                  diff |-> fc.labels["null_vs_value"]]

\* _compare_values has returned for a numeric column on None and NaN
C4_Witness ==
    /\ fc.dtype = "numeric"
    /\ fc.qes_val = None /\ fc.niq_val = NaN
    /\ fc.cmpDirect.exc = "none" /\ fc.cmpDirect.match

\* the field values that denote a finite number
IsNumeral(v) ==
    \/ v.t \in {"int", "float"}
    \/ v \in {PyStr(<<"1", "0">>), PyStr(<<" ", "1", "0", ".", "0", "5", "%", " ">>)}

\* the number a numeral denotes, in units of 1 / Scale
NumberOf(v) ==
    CASE v.t = "int" -> v.n * Scale
      [] v.t = "float" -> v.n
      [] v = PyStr(<<"1", "0">>) -> 10 * Scale
      [] OTHER -> 10 * Scale + 5 * Pow10(FracDigits - 2)

\* the field value is the text of an infinity
IsInfinite(v) == v = PyStr(<<"i", "n", "f">>)

\* C5: for a numeric column and two values that denote numbers, the
\* comparison of the normalized values returns as diff the multiple of 10^-6
\* nearest to right - left and match = (abs(diff) <= tolerance), so that with
\* tolerance 0 the values match only when diff is 0; when a value is
\* infinite, diff is infinite or NaN and there is no match.
C5_NumericComparison ==
    (fc.dtype = "numeric" /\ fc.cmp.exc # "pending") =>
        /\ (IsNumeral(fc.qes_val) /\ IsNumeral(fc.niq_val)) =>
               /\ fc.cmp.exc = "none"
               /\ fc.cmp.diff.t = "float"
               /\ fc.cmp.diff.n % Pow10(FracDigits - RoundDigits) = 0
               /\ 2 * Abs(fc.cmp.diff.n - (NumberOf(fc.niq_val) - NumberOf(fc.qes_val)))
                      <= Pow10(FracDigits - RoundDigits)
               /\ fc.cmp.match <=> Abs(fc.cmp.diff.n) <= fc.tolerance
               /\ fc.tolerance = 0 => (fc.cmp.match <=> fc.cmp.diff.n = 0)
        /\ (\/ IsInfinite(fc.qes_val) /\ (IsNumeral(fc.niq_val) \/ IsInfinite(fc.niq_val))
            \/ IsInfinite(fc.niq_val) /\ IsNumeral(fc.qes_val)) =>
               /\ fc.cmp.exc = "none"
               /\ fc.cmp.diff.t \in {"inf", "nan"}
               /\ ~fc.cmp.match

\* 10.0000001 against the percent string " 10.05% " under tolerance 0.01:
\* diff 0.05, no match
C5_Witness ==
    /\ fc.dtype = "numeric" /\ fc.tolerance = Pow10(FracDigits - 2)
    /\ fc.qes_val = PyFloat(10 * Scale + 1)
    /\ fc.niq_val = PyStr(<<" ", "1", "0", ".", "0", "5", "%", " ">>)
    /\ fc.cmp.exc = "none" /\ ~fc.cmp.match
    /\ fc.cmp.diff = PyFloat(5 * Pow10(FracDigits - 2))

\* the field values float() does not parse
IsUnparseable(v) ==
    v \in {PyStr(<<"a", "b", "c">>), PyStr(<<"A", "B", "C">>), PyStr(<<" ", "a", "b", "c">>),
           PyStr(<<>>), PyStr(<<" ", "1", "0", ".", "0", "5", "%", " ">>)}

\* C6: _compare_values for a numeric column on two non-null values of which
\* one does not parse returns match = (the string forms are equal ignoring
\* letter case) and diff = "<left> vs <right>".
C6_FallbackIgnoresCase ==
    (/\ fc.dtype = "numeric" /\ fc.cmpDirect.exc # "pending"
     /\ ~IsNull(fc.qes_val) /\ ~IsNull(fc.niq_val)
     /\ (IsUnparseable(fc.qes_val) \/ IsUnparseable(fc.niq_val))) =>
        /\ fc.cmpDirect.exc = "none"
        /\ fc.cmpDirect.match <=> Lower(StrOf(fc.qes_val)) = Lower(StrOf(fc.niq_val))
        /\ fc.cmpDirect.diff = Fmt(fc.qes_val, <<" ", "v", "s", " ">>, fc.niq_val)

\* the numeric compare columns of the configuration
NumericColumns ==
    {c \in 1..Len(cfg.compare_columns) : DtypeOf(cfg.compare_columns[c]) = "numeric"}

\* the row the running loop is about to build: [exc, row]
PendingRow ==
    CASE pc = "both" ->
             BothRowOf(Loc(qes_na, qes_keys, Head(todo)),
                       Loc(niq_na, niq_keys, Head(todo)), cfg)
      [] pc = "qes_only" -> QesOnlyRowOf(Loc(qes_na, qes_keys, Head(todo)), cfg)
      [] OTHER -> NiqOnlyRowOf(Loc(niq_na, niq_keys, Head(todo)), cfg)

\* C7: no run ends with an exception inside a row loop, the row a loop is
\* about to build is built without an exception, and on every pair of a left
\* and a right value of a numeric compare column _normalize_value,
\* _compare_values and _compute_direction return.
C7_UnparseableNeverRaises ==
    /\ raised # "none" => (pc = "start" \/ (pc = "niq_only" /\ todo = <<>>))
    /\ (pc \in {"both", "qes_only", "niq_only"} /\ todo # <<>>) => PendingRow.exc = "none"
    /\ \A c \in NumericColumns, i \in 1..Len(qes_na), j \in 1..Len(niq_na) :
           /\ NormalizeValue(qes_na[i][cfg.compare_columns[c]["qes_col"]], "numeric").exc = "none"
           /\ NormalizeValue(niq_na[j][cfg.compare_columns[c]["niq_col"]], "numeric").exc = "none"
           /\ CompareValues(
                  NormalizeValue(qes_na[i][cfg.compare_columns[c]["qes_col"]], "numeric").v,
                  NormalizeValue(niq_na[j][cfg.compare_columns[c]["niq_col"]], "numeric").v,
                  "numeric", ToleranceOf(cfg.compare_columns[c]),
                  cfg.output.labels).exc = "none"
           /\ ComputeDirection(
                  NormalizeValue(qes_na[i][cfg.compare_columns[c]["qes_col"]], "numeric").v,
                  NormalizeValue(niq_na[j][cfg.compare_columns[c]["niq_col"]], "numeric").v,
                  "numeric", ToleranceOf(cfg.compare_columns[c]),
                  cfg.output.labels).exc = "none"

\* a finished run whose first row is a Both row on the text "abc" in the
\* numeric column, followed by another row
C7_Witness ==
    /\ pc = "done"
    /\ Len(results) = 2
    /\ Cell(results[1], RowSourceCol) = SourceBoth
    /\ Cell(results[1], QesCol(CountColumn["label"])) = PyStr(<<"a", "b", "c">>)
    /\ Cell(results[1], NiqCol(CountColumn["label"])) = PyStr(<<"a", "b", "c">>)

\* C8: _compare_values for a text column on two non-null values returns
\* match = (the string forms are equal once trimmed and in one letter case),
\* diff = "" on a match and "<left> -> <right>" otherwise.
C8_TextComparison ==
    (/\ fc.dtype = "text" /\ fc.cmpDirect.exc # "pending"
     /\ ~IsNull(fc.qes_val) /\ ~IsNull(fc.niq_val)) =>
        /\ fc.cmpDirect.exc = "none"
        /\ fc.cmpDirect.match
               <=> Lower(Strip(StrOf(fc.qes_val))) = Lower(Strip(StrOf(fc.niq_val)))
        /\ fc.cmpDirect.diff =
               IF fc.cmpDirect.match THEN PyStr(<<>>)
               ELSE Fmt(fc.qes_val, <<" ", "-", ">", " ">>, fc.niq_val)

\* "ABC" against " abc" as text: a match with the empty diff
C8_Witness ==
    /\ fc.dtype = "text"
    /\ fc.qes_val = PyStr(<<"A", "B", "C">>) /\ fc.niq_val = PyStr(<<" ", "a", "b", "c">>)
    /\ fc.cmpDirect = [exc |-> "none", match |-> TRUE, diff |-> PyStr(<<>>)]

\* x > tol for a float x, tol a finite number of tol / Scale
FloatAbove(x, tol) == (x.t = "float" /\ x.n > tol) \/ x = PyInf(1)

\* x < -tol
FloatBelow(x, tol) == (x.t = "float" /\ x.n < -tol) \/ x = PyInf(-1)

\* abs(x) <= tol
FloatWithin(x, tol) == x.t = "float" /\ Abs(x.n) <= tol

\* C9: _compute_direction on the normalized values of a numeric column
\* returns "" when a value is null or does not parse, and otherwise SAME iff
\* abs(right - left) <= tolerance, HIGHER iff right - left > tolerance and
\* LOWER iff right - left < -tolerance.
C9_DirectionTrichotomy ==
    (fc.dtype = "numeric" /\ fc.dir.exc # "pending") =>
        /\ fc.dir.exc = "none"
        /\ IF IsNa(fc.qnorm.v) \/ IsNa(fc.nnorm.v)
              \/ ~IsFloat(fc.qnorm.v) \/ ~IsFloat(fc.nnorm.v)
           THEN fc.dir.v = PyStr(<<>>)
           ELSE /\ fc.dir.v = fc.labels["same"]
                       <=> FloatWithin(FloatSub(fc.nnorm.v, fc.qnorm.v), fc.tolerance)
                /\ fc.dir.v = fc.labels["higher"]
                       <=> FloatAbove(FloatSub(fc.nnorm.v, fc.qnorm.v), fc.tolerance)
                /\ fc.dir.v = fc.labels["lower"]
                       <=> FloatBelow(FloatSub(fc.nnorm.v, fc.qnorm.v), fc.tolerance)

\* the cells of a one-sided row are as the claim states them, absent naming
\* the value column of the missing side
OneSidedAsClaimed(row, c, absent, na, overall) ==
    /\ Cell(row, absent) = None
    /\ Cell(row, DiffCol(cfg.compare_columns[c]["label"])) = cfg.output.labels[na]
    /\ Cell(row, MatchCol(cfg.compare_columns[c]["label"])) = cfg.output.labels["warning"]
    /\ Cell(row, OverallMatchCol) = cfg.output.labels[overall]

\* the Match flag of the column is neither the match nor the mismatch label
NeitherMatchNorMismatch(row, c) ==
    Cell(row, MatchCol(cfg.compare_columns[c]["label"]))
        \notin {cfg.output.labels["match"], cfg.output.labels["mismatch"]}

\* the warning label is the display string of neither match nor mismatch
WarningLabelDistinct ==
    cfg.output.labels["warning"]
        \notin {cfg.output.labels["match"], cfg.output.labels["mismatch"]}

\* C10 as stated: in every QES Only row every compare column has the NIQ
\* value absent, the na_qes_only Diff, the warning label as Match flag, which
\* is never the match or mismatch label, and Overall_Match is the
\* overall_qes_only label; NIQ Only rows mirror this.
C10_OneSidedRowsAsStated ==
    \A c \in 1..Len(cfg.compare_columns) :
        /\ \A i \in RowsOf(SourceQesOnly) :
               /\ OneSidedAsClaimed(results[i], c, NiqCol(cfg.compare_columns[c]["label"]),
                                    "na_qes_only", "overall_qes_only")
               /\ NeitherMatchNorMismatch(results[i], c)
        /\ \A i \in RowsOf(SourceNiqOnly) :
               /\ OneSidedAsClaimed(results[i], c, QesCol(cfg.compare_columns[c]["label"]),
                                    "na_niq_only", "overall_niq_only")
               /\ NeitherMatchNorMismatch(results[i], c)

\* C10: in every QES Only row every compare column has the NIQ value
\* absent, the na_qes_only Diff, the warning label as Match flag, and
\* Overall_Match is the overall_qes_only label; NIQ Only rows mirror this;
\* the Match flag is neither the match nor the mismatch label when the
\* warning label differs from both.
C10_OneSidedRows ==
    \A c \in 1..Len(cfg.compare_columns) :
        /\ \A i \in RowsOf(SourceQesOnly) :
               /\ OneSidedAsClaimed(results[i], c, NiqCol(cfg.compare_columns[c]["label"]),
                                    "na_qes_only", "overall_qes_only")
               /\ WarningLabelDistinct => NeitherMatchNorMismatch(results[i], c)
        /\ \A i \in RowsOf(SourceNiqOnly) :
               /\ OneSidedAsClaimed(results[i], c, QesCol(cfg.compare_columns[c]["label"]),
                                    "na_niq_only", "overall_niq_only")
               /\ WarningLabelDistinct => NeitherMatchNorMismatch(results[i], c)

\* a finished run with a QES Only and a NIQ Only row under labels whose
\* warning label is its own
C10_Witness ==
    /\ pc = "done"
    /\ WarningLabelDistinct
    /\ RowsOf(SourceQesOnly) # {} /\ RowsOf(SourceNiqOnly) # {}

\* the first record of df whose join key is k
FirstWithKey(df, keys, k) ==
    df[CHOOSE i \in 1..Len(df) : keys[i] = k /\ \A j \in 1..Len(df) : keys[j] = k => i <= j]

\* the row has a cell for every left key field
HasKeyColumns(row) ==
    \A i \in 1..Len(cfg.key_columns.qes) : HasColumn(row, cfg.key_columns.qes[i])

\* key column i of the row, named after left key field i, holds rec[fields[i]]
KeyCellsFrom(row, rec, fields) ==
    \A i \in 1..Len(cfg.key_columns.qes) :
        Cell(row, cfg.key_columns.qes[i]) = rec[fields[i]]

\* C11: every row has a column named after each left key field; in a Both or
\* QES Only row column i holds a left record's value of left key field i, in
\* a NIQ Only row it holds a right record's value of right key field i, the
\* record being one that carries the row's join key.
C11_KeyColumns ==
    \A r \in 1..Len(results) :
        /\ HasKeyColumns(results[r])
        /\ IF Cell(results[r], RowSourceCol) = SourceNiqOnly
           THEN \E k \in 1..Len(niq_na) :
                    /\ niq_keys[k] = RowKey(results[r])
                    /\ KeyCellsFrom(results[r], niq_na[k], cfg.key_columns.niq)
           ELSE \E k \in 1..Len(qes_na) :
                    /\ qes_keys[k] = RowKey(results[r])
                    /\ KeyCellsFrom(results[r], qes_na[k], cfg.key_columns.qes)

\* a finished run with a Both, a QES Only and a NIQ Only row
C11_Witness ==
    /\ pc = "done"
    /\ RowsOf(SourceBoth) # {} /\ RowsOf(SourceQesOnly) # {} /\ RowsOf(SourceNiqOnly) # {}

\* the row the code is to build for join key k from the first record of each
\* side that carries k
RowFromFirst(k) ==
    IF k \in KeySet(qes_keys) /\ k \in KeySet(niq_keys)
    THEN BothRowOf(FirstWithKey(qes_na, qes_keys, k), FirstWithKey(niq_na, niq_keys, k), cfg).row
    ELSE IF k \in KeySet(qes_keys)
    THEN QesOnlyRowOf(FirstWithKey(qes_na, qes_keys, k), cfg).row
    ELSE NiqOnlyRowOf(FirstWithKey(niq_na, niq_keys, k), cfg).row

\* C12: every row is the row built from the first record of each side that
\* carries its join key, whatever the later records with that key hold, and a
\* key shared by several records has one row.
C12_FirstDuplicateWins ==
    \A r \in 1..Len(results) :
        /\ results[r] = RowFromFirst(RowKey(results[r]))
        /\ \A q \in 1..Len(results) : RowKey(results[q]) = RowKey(results[r]) => q = r

\* a finished run in which each side holds two different records with one
\* join key
C12_Witness ==
    /\ pc = "done"
    /\ Len(qes_keys) = 2 /\ qes_keys[1] = qes_keys[2] /\ qes_na[1] # qes_na[2]
    /\ Len(niq_keys) = 2 /\ niq_keys[1] = niq_keys[2] /\ niq_na[1] # niq_na[2]
    /\ niq_keys[1] = qes_keys[1]
    /\ Len(results) = 1

\* the normalized key tokens of a result row, one per key position
RowTokens(row) ==
    [i \in 1..Len(cfg.key_columns.qes) |->
        NormalizeKeyPart(Cell(row, cfg.key_columns.qes[i])).v]

\* tuple a precedes tuple b, compared position by position from position i
RECURSIVE TupleLess(_, _, _)
TupleLess(a, b, i) ==
    IF i > Len(a) THEN FALSE
    ELSE IF a[i] = b[i] THEN TupleLess(a, b, i + 1)
    ELSE StrLess(a[i], b[i])

\* the place of a row's group in the output: Both, QES Only, NIQ Only
GroupRank(row) ==
    IF Cell(row, RowSourceCol) = SourceBoth THEN 1
    ELSE IF Cell(row, RowSourceCol) = SourceQesOnly THEN 2
    ELSE 3

\* C13: the rows come group by group, Both, then QES Only, then NIQ Only,
\* and inside a group in ascending order of the tuple of key tokens.
C13_TupleOrder ==
    \A r \in 1..(Len(results) - 1) :
        \/ GroupRank(results[r]) < GroupRank(results[r + 1])
        \/ /\ GroupRank(results[r]) = GroupRank(results[r + 1])
           /\ TupleLess(RowTokens(results[r]), RowTokens(results[r + 1]), 1)

\* every assembled column is in the output once, and nothing else is
IsPermutation(out, assembled) ==
    /\ Len(out) = Len(assembled)
    /\ \A i \in 1..Len(assembled) :
           Cardinality({j \in 1..Len(out) : out[j] = assembled[i]}) = 1

\* C15: the columns _apply_column_order returns are a permutation of the
\* assembled columns, whatever the template.
C15_OrderIsPermutation ==
    pc = "ordered" => IsPermutation(columns, FrameColumns(results, 1, <<>>))

\* the columns each token of OrderTokens stands for, as the claim lists them
TokenTable ==
    <<[token |-> KeysToken, cols |-> <<QState, QCounty>>],
      [token |-> <<" ">> \o RowSourceToken \o <<" ">>, cols |-> <<RowSourceCol>>],
      [token |-> OverallMatchToken, cols |-> <<OverallMatchCol>>],
      [token |-> ComparePrefix \o <<"C", "n", "t", "}">>,
       cols |-> <<<<"Q", "E", "S", "_", "C", "n", "t">>, <<"N", "I", "Q", "_", "C", "n", "t">>,
                  <<"D", "i", "f", "f", "_", "C", "n", "t">>,
                  <<"M", "a", "t", "c", "h", "_", "C", "n", "t">>,
                  <<"D", "i", "r", "e", "c", "t", "i", "o", "n", "_", "C", "n", "t">>>>],
      [token |-> ComparePrefix \o <<"S", "t", "d", "}">>,
       cols |-> <<<<"Q", "E", "S", "_", "S", "t", "d">>, <<"N", "I", "Q", "_", "S", "t", "d">>,
                  <<"D", "i", "f", "f", "_", "S", "t", "d">>,
                  <<"M", "a", "t", "c", "h", "_", "S", "t", "d">>>>],
      [token |-> AdditionalPrefix \o <<"M", "e", "m", "}">>,
       cols |-> <<<<"Q", "E", "S", "_", "M", "e", "m">>, <<"N", "I", "Q", "_", "M", "e", "m">>>>],
      [token |-> QState, cols |-> <<QState>>],
      [token |-> <<"N", "o", "p", "e">>, cols |-> <<>>],
      [token |-> ComparePrefix \o <<"Z", "z", "}">>, cols |-> <<>>]>>

\* the assembled columns a token stands for
ColumnsOfToken(token) ==
    TokenTable[CHOOSE i \in 1..Len(TokenTable) : TokenTable[i].token = token].cols

\* the assembled columns of the tokens of a template, in template order
RECURSIVE ColumnsOfTemplate(_, _)
ColumnsOfTemplate(template, i) ==
    IF i > Len(template) THEN <<>>
    ELSE ColumnsOfToken(template[i]) \o ColumnsOfTemplate(template, i + 1)

\* the members of cols that satisfy no template token, in their order
Unreferenced(cols, referenced) ==
    SelectSeq(cols, LAMBDA c : \A i \in 1..Len(referenced) : referenced[i] # c)

\* C16: the output columns are the assembled columns of the template's
\* tokens in template order, followed by the assembled columns no token
\* refers to in assembly order; an empty template leaves the assembly order.
C16_TemplateOrder ==
    pc = "ordered" =>
        columns = ColumnsOfTemplate(cfg.result_column_order, 1)
                  \o Unreferenced(FrameColumns(results, 1, <<>>),
                                  ColumnsOfTemplate(cfg.result_column_order, 1))

\* a template of an unknown literal, the Std compare token, which has no
\* Direction column, and the Cnt compare token, which has one
C16_Witness ==
    /\ pc = "ordered"
    /\ cfg.result_column_order =
           <<<<"N", "o", "p", "e">>, ComparePrefix \o <<"S", "t", "d", "}">>,
             ComparePrefix \o <<"C", "n", "t", "}">>>>
    /\ Len(columns) = Len(FrameColumns(results, 1, <<>>))
    /\ columns[5] = <<"Q", "E", "S", "_", "C", "n", "t">>
    /\ columns[9] = <<"D", "i", "r", "e", "c", "t", "i", "o", "n", "_", "C", "n", "t">>
    /\ columns[10] = RowSourceCol

\* the column specs whose labels become column-name suffixes
LabelledSpecs(c) == c.compare_columns \o c.additional_result_columns

\* C17: a configuration that load_config accepted has, in every compare
\* column, the fields the engine reads (qes_col, niq_col, label), and the
\* comparison never fails on a configuration lookup
C17_ConfigErrorsCaughtUpFront ==
    pc # "config" =>
        /\ \A i \in 1..Len(cfg.compare_columns) :
               ~LacksKey(cfg.compare_columns[i], {"qes_col", "niq_col", "label"})
        /\ raised # "KeyError"

\* C18: in a configuration that load_config accepted no two entries of
\* compare_columns and additional_result_columns share a label
C18_DuplicateLabelsRejected ==
    pc # "config" =>
        \A i, j \in 1..Len(LabelledSpecs(cfg)) :
            (/\ i # j
             /\ ~LacksKey(LabelledSpecs(cfg)[i], {"label"})
             /\ ~LacksKey(LabelledSpecs(cfg)[j], {"label"}))
            => LabelledSpecs(cfg)[i]["label"] # LabelledSpecs(cfg)[j]["label"]

\* C19: a token _normalize_key_part returned is returned again for itself
C19_Idempotent ==
    kn.stage = "twice" =>
        /\ kn.once.exc = "none" => kn.twice = kn.once
        /\ kn.other_once.exc = "none" => kn.other_twice = kn.other_once

\* a value the first call rewrote (a numeral with a leading zero, a float,
\* text with blanks around it) has gone through the second call
C19_Witness ==
    /\ kn.stage = "twice"
    /\ kn.once.exc = "none"
    /\ kn.once.v # StrOf(kn.key_val)
    /\ kn.twice = kn.once

RECURSIVE LStripZeros(_)
LStripZeros(cs) == IF cs # <<>> /\ Head(cs) = "0" THEN LStripZeros(Tail(cs)) ELSE cs

\* the numeral cs without its sign
Unsigned(cs) == IF cs # <<>> /\ Head(cs) = "-" THEN Tail(cs) ELSE cs

\* cs spells an integer: digits, a minus sign before them at most
IsIntegerNumeral(cs) ==
    /\ Unsigned(cs) # <<>>
    /\ \A i \in 1..Len(Unsigned(cs)) : IsDigit(Unsigned(cs)[i])

\* the minimal decimal string of the integer cs spells
MinimalDecimal(cs) ==
    IF LStripZeros(Unsigned(cs)) = <<>> THEN <<"0">>
    ELSE (IF cs = Unsigned(cs) THEN <<>> ELSE <<"-">>) \o LStripZeros(Unsigned(cs))

\* val spells an integer: an int, a float n.0, or a numeral with leading
\* zeros or blanks around it
IsIntegerSpelling(val) ==
    \/ val.t = "int"
    \/ val.t = "float" /\ val.n % Scale = 0
    \/ val.t = "str" /\ IsIntegerNumeral(Strip(val.s))

\* the minimal decimal string of the integer val spells
IntegerOfSpelling(val) ==
    CASE val.t = "int" -> StrOfInt(val.n)
      [] val.t = "float" -> StrOfInt(IF val.n < 0 THEN -((-val.n) \div Scale)
                                     ELSE val.n \div Scale)
      [] OTHER -> MinimalDecimal(Strip(val.s))

\* val is a string that does not parse as a number
IsNonNumericString(val) ==
    /\ val.t = "str"
    /\ ~IsIntegerNumeral(Strip(val.s))
    /\ FloatOfStr(val.s).exc # "none"

\* what the claim says _normalize_key_part(val) returns into tok
CanonicalAsClaimed(val, tok) ==
    /\ IsIntegerSpelling(val) => tok = [exc |-> "none", v |-> IntegerOfSpelling(val)]
    /\ IsNonNumericString(val) => tok = [exc |-> "none", v |-> Strip(val.s)]

\* C20: every spelling of an integer n normalizes to the minimal decimal
\* string of n, and a string that does not parse as a number to itself,
\* trimmed
C20_NumericCanonical ==
    kn.stage # "input" =>
        /\ CanonicalAsClaimed(kn.key_val, kn.once)
        /\ CanonicalAsClaimed(kn.other_val, kn.other_once)

\* the left value that enters the comparison, before the map: the record's
\* value as _normalize_value returns it
MapLeft == NormalizeValue(qes_na[1][QStd], DtypeOf(cfg.compare_columns[1])).v

\* the right value that enters the comparison
MapRight == NormalizeValue(niq_na[1][NStd], DtypeOf(cfg.compare_columns[1])).v

\* the column has a map with an entry for the stringified, trimmed left value
HasMapEntry ==
    /\ "value_map" \in DOMAIN cfg.compare_columns[1]
    /\ MapLeft.t # "None"
    /\ Strip(StrOf(MapLeft)) \in DOMAIN cfg.compare_columns[1]["value_map"]

\* the entry's value
MapEntry == cfg.compare_columns[1]["value_map"][Strip(StrOf(MapLeft))]

\* the row of the same record pair for the column without its map
UnmappedRow ==
    BothColumn(<<>>, qes_na[1], niq_na[1],
               [k \in DOMAIN cfg.compare_columns[1] \ {"value_map"} |->
                   cfg.compare_columns[1][k]],
               cfg.output.labels).row

OverallLabelsDistinct ==
    Cardinality({cfg.output.labels[k] :
                    k \in {"overall_match", "overall_mismatch", "overall_qes_only",
                           "overall_niq_only"}}) = 4

\* C22: with pairwise distinct overall labels the summary's total is the sum
\* of its Both, QES Only and NIQ Only counts, its matched and mismatched
\* counts add up to the Both count, and the match rate is the matched share of
\* the Both rows to one decimal of a percent, N/A when there is no Both row
C22_SummaryCounts ==
    (pc = "done" /\ OverallLabelsDistinct) =>
        /\ summary.total = summary.both + summary.qes_only + summary.niq_only
        /\ summary.matches + summary.mismatches = summary.both
        /\ summary.both = 0 => summary.match_pct = NotAvailable
        /\ summary.both > 0 =>
               \E t \in 0..1000 :
                   /\ summary.match_pct = FormatPercent(t)
                   /\ 2 * Abs(t * summary.both - 1000 * summary.matches) <= summary.both

\* a summary over a Both row that matches and a one-sided row
C22_Witness ==
    /\ pc = "done" /\ OverallLabelsDistinct
    /\ summary.matches > 0
    /\ summary.qes_only + summary.niq_only > 0

\* the labels the claim names
NamedLabels ==
    {"match", "mismatch", "warning", "overall_match", "overall_mismatch",
     "overall_qes_only", "overall_niq_only", "na_qes_only", "na_niq_only",
     "null_vs_value", "higher", "lower", "same"}

\* the labels the configuration file supplies
SuppliedLabels == Get(cfg.output, "labels", <<>>)

\* C23: when load_config returns, every named label is in
\* cfg["output"]["labels"], with the value the file supplied or else with its
\* default
C23_LabelDefaults ==
    [][(pc = "config" /\ pc' = "start") =>
          \A k \in NamedLabels :
              /\ k \in DOMAIN cfg'.output.labels
              /\ cfg'.output.labels[k]
                     = (IF k \in DOMAIN SuppliedLabels THEN SuppliedLabels[k]
                        ELSE DefaultLabels[k])]_vars

\* load_config has returned labels of which one was supplied with a value
\* of its own and another was not supplied
C23_Witness ==
    /\ pc = "start"
    /\ "summary" \in DOMAIN cfg
    /\ cfg.output.labels["warning"] # DefaultLabels["warning"]
    /\ cfg.output.labels["match"] = DefaultLabels["match"]

\* ord(ch) <= 127
IsAscii(ch) == \E i \in 1..Len(CodePoints) : CodePoints[i] = ch

\* C24: every label of a configuration that load_config accepted is a string
\* of ASCII characters
C24_LabelsAscii ==
    pc # "config" =>
        \A k \in DOMAIN cfg.output.labels :
            \A i \in 1..Len(cfg.output.labels[k].s) :
                IsAscii(cfg.output.labels[k].s[i])

\* C25: every entry of cfg["additional_result_columns"] of a configuration
\* that load_config accepted has a qes_col, a niq_col and a non-empty label
C25_AdditionalColumnsVerbose ==
    pc # "config" =>
        \A i \in 1..Len(cfg.additional_result_columns) :
            /\ ~LacksKey(cfg.additional_result_columns[i], {"qes_col", "niq_col", "label"})
            /\ cfg.additional_result_columns[i]["label"] # <<>>

\* the lines of the file that rows were read from
LinesOf(rows) == [i \in 1..Len(rows) |-> rows[i].line]

\* C26: _load_csv_chunked returns the rows a whole-file read followed by the
\* same filter returns, in file order, whatever the chunk size and the file
\* length
C26_ChunkedAsWhole ==
    (pc = "chunked" /\ WholeFileFiltered(qes_na, cfg).exc = "none") =>
        LinesOf(results) = LinesOf(WholeFileFiltered(qes_na, cfg).rows)

\* C27: for a numeric column with a direction and two values that are
\* non-null and parse, the direction is the SAME label exactly when the
\* values match
C27_MatchAndDirectionAgree ==
    (/\ fc.dtype = "numeric"
     /\ fc.cmp.exc = "none" /\ fc.dir.exc = "none"
     /\ IsNumeral(fc.qes_val) /\ IsNumeral(fc.niq_val)) =>
        (fc.dir.v = fc.labels["same"] <=> fc.cmp.match)

\* the key value denotes a number small enough for exact arithmetic
DenotesNumber(val) ==
    /\ ~IsBigNumeral(Strip(StrOf(val)))
    /\ FloatOf(val).exc = "none"
    /\ FloatOf(val).v.t = "float"

\* the two key values are the same trimmed string or denote the same number
SameEntity(a, b) ==
    \/ Strip(StrOf(a)) = Strip(StrOf(b))
    \/ DenotesNumber(a) /\ DenotesNumber(b) /\ FloatOf(a).v.n = FloatOf(b).v.n

\* C28: two key values get the same token only if they are the same trimmed
\* string or denote the same number
C28_DistinctValuesDistinctTokens ==
    (/\ kn.stage # "input"
     /\ kn.once.exc = "none" /\ kn.other_once.exc = "none"
     /\ kn.once.v = kn.other_once.v) => SameEntity(kn.key_val, kn.other_val)

\* the cell of a one-sided row for a numeric column holds the normalized
\* number whenever the record's value val parses
HoldsNormalized(row, col, val) ==
    NormalizeValue(val, "numeric").v.t = "float" =>
        Cell(row, col) = NormalizeValue(val, "numeric").v

\* C29: for a numeric compare column and a value that parses, the NIQ_<label>
\* cell of a NIQ Only row and the QES_<label> cell of a QES Only row hold the
\* normalized number, as the cells of a Both row do
C29_OneSidedValueNormalized ==
    \A r \in 1..Len(results), c \in NumericColumns :
        /\ Cell(results[r], RowSourceCol) = SourceNiqOnly =>
               HoldsNormalized(results[r], NiqCol(cfg.compare_columns[c]["label"]),
                               FirstWithKey(niq_na, niq_keys, RowKey(results[r]))
                                   [cfg.compare_columns[c]["niq_col"]])
        /\ Cell(results[r], RowSourceCol) = SourceQesOnly =>
               HoldsNormalized(results[r], QesCol(cfg.compare_columns[c]["label"]),
                               FirstWithKey(qes_na, qes_keys, RowKey(results[r]))
                                   [cfg.compare_columns[c]["qes_col"]])

\* C30: compare_network_adequacy raises on no pair of datasets, empty ones
\* included, and a run over an empty dataset ends with a summary whose Both
\* count is 0
C30_CompletesOnEveryInput ==
    /\ raised = "none"
    /\ (pc = "done" /\ (qes_na = <<>> \/ niq_na = <<>>)) => summary.both = 0

====
